---- MODULE Spec2Model ----
(***************************************************************************)
(* A model of AppelsProjetFinder (src/backend/finder.py): the tolerant     *)
(* JSON-from-text parser, the provider calls, the scraper with its         *)
(* heuristic fallback and the orchestration loop of traiter_fichier.       *)
(*                                                                         *)
(* Texts are sequences of lexical tokens.  The only tokens that contain    *)
(* the characters [ ] { } are the four bracket tokens themselves, so the   *)
(* character-level regular expressions of _parse_response act on token     *)
(* positions.  JSON values are tagged records, so that values of different *)
(* JSON types can be compared.                                             *)
(***************************************************************************)
EXTENDS Integers, Sequences, FiniteSets, TLC

VARIABLES
    text,           \* SpecParse: the argument handed to _parse_response
    parsed,         \* SpecParse: what _parse_response returned (ret, exc)
    markup,         \* _extraire_info_heuristique called alone: its argument (soup, url)
    extracted,      \* _extraire_info_heuristique called alone: what each call returned,
                    \* with the diagnostics of the finder when it was called
    ppc,            \* SpecParse: "start" before the call, "done" after it
    config,         \* backend: os.environ and the .env file, variable -> value
    reqs,           \* backend: the /process requests, each with its locals
    last_ai_info,   \* backend: the module global _last_ai_info
    tmpdirs,        \* backend: the requests whose temporary directory exists
    api_provider,   \* self.api_provider
    api_key,        \* self.api_key
    built,          \* history: the arguments the constructor was called with
    results,        \* self.results
    ai_calls,       \* self.ai_calls
    ai_success,     \* self.ai_success
    heuristic_used, \* self.heuristic_used
    ai_errors,      \* self.ai_errors
    pc,             \* traiter_fichier: "idle", "subject", "url", "done", "aborted", "raised"
    idx,            \* traiter_fichier: the row the running loop is at
    df,             \* traiter_fichier: the table read (columns, rows)
    subject_col,    \* traiter_fichier: the resolved subject column, or NoCol
    url_col,        \* traiter_fichier: the resolved url column, or NoCol
    calls,          \* history: one entry per provider search / scrape of the run
    last,           \* history: the latest search / scrape, with what the world answered
    sleeps,         \* history: number of time.sleep(1) of the run
    warned,         \* history: the 'Aucune colonne reconnue' warning was logged
    runs,           \* history: number of traiter_fichier calls made on the finder
    ops             \* history: number of direct rechercher_avec_ia / scraper_url calls

svars == <<config, reqs, last_ai_info, tmpdirs>>
pvars == <<text, parsed, ppc, markup, extracted, svars>>
fvars == <<api_provider, api_key, built, results, ai_calls, ai_success, heuristic_used, ai_errors,
           pc, idx, df, subject_col, url_col, calls, last, sleeps, warned, runs, ops>>
vars == <<pvars, fvars>>

(***************************************************************************)
(* Bounds                                                                  *)
(***************************************************************************)
MaxTextLen == 5

(***************************************************************************)
(* JSON values (what json.loads builds)                                    *)
(***************************************************************************)
JStr(s) == [t |-> "str", s |-> s]
JNum(n) == [t |-> "num", n |-> n]
JArr(items) == [t |-> "arr", items |-> items]
JObj(f) == [t |-> "obj", f |-> f]
JNull == [t |-> "null"]

EmptyFields == [k \in {} |-> JNull]

\* Python truthiness of a parsed list / of a dict
IsDict(v) == v.t = "obj"

(***************************************************************************)
(* Tokens                                                                  *)
(***************************************************************************)
LB == "["
RB == "]"
LC == "{"
RC == "}"
COMMA == ","
PROSE == "txt"                     \* a word of prose: not JSON, no bracket

KeyTokens == {"titre:", "url:", "tags:"}      \* "key": inside an object
KeyName(tok) ==
    CASE tok = "titre:" -> "titre"
      [] tok = "url:" -> "url"
      [] tok = "tags:" -> "tags"

StringTokens == {"X", "Y", "u1", "u2"}        \* JSON string literals
NumberTokens == {"1"}                         \* JSON number literals
ScalarValue(tok) == IF tok \in NumberTokens THEN JNum(1) ELSE JStr(tok)

(***************************************************************************)
(* json.loads on a token sequence: a recursive-descent parser.  The result *)
(* is [ok, val, next]; ok = FALSE stands for json.JSONDecodeError.         *)
(***************************************************************************)
ParseFail == [ok |-> FALSE, val |-> JNull, next |-> 0]
ParseOk(v, n) == [ok |-> TRUE, val |-> v, next |-> n]

RECURSIVE ParseValue(_, _)
RECURSIVE ParseItems(_, _, _)
RECURSIVE ParseMembers(_, _, _)

ParseValue(toks, i) ==
    IF i > Len(toks) THEN ParseFail
    ELSE IF toks[i] \in StringTokens \cup NumberTokens
         THEN ParseOk(ScalarValue(toks[i]), i + 1)
    ELSE IF toks[i] = LB
         THEN IF i + 1 <= Len(toks) /\ toks[i + 1] = RB
              THEN ParseOk(JArr(<<>>), i + 2)
              ELSE ParseItems(toks, i + 1, <<>>)
    ELSE IF toks[i] = LC
         THEN IF i + 1 <= Len(toks) /\ toks[i + 1] = RC
              THEN ParseOk(JObj(EmptyFields), i + 2)
              ELSE ParseMembers(toks, i + 1, EmptyFields)
    ELSE ParseFail

ParseItems(toks, i, acc) ==
    LET r == ParseValue(toks, i) IN
    IF ~r.ok \/ r.next > Len(toks) THEN ParseFail
    ELSE IF toks[r.next] = COMMA
         THEN ParseItems(toks, r.next + 1, Append(acc, r.val))
    ELSE IF toks[r.next] = RB
         THEN ParseOk(JArr(Append(acc, r.val)), r.next + 1)
    ELSE ParseFail

\* a repeated key keeps the last value, as a Python dict does
PutField(f, k, v) == [x \in DOMAIN f \cup {k} |-> IF x = k THEN v ELSE f[x]]

ParseMembers(toks, i, f) ==
    IF i > Len(toks) \/ toks[i] \notin KeyTokens THEN ParseFail
    ELSE LET r == ParseValue(toks, i + 1) IN
         IF ~r.ok \/ r.next > Len(toks) THEN ParseFail
         ELSE IF toks[r.next] = COMMA
              THEN ParseMembers(toks, r.next + 1, PutField(f, KeyName(toks[i]), r.val))
         ELSE IF toks[r.next] = RC
              THEN ParseOk(JObj(PutField(f, KeyName(toks[i]), r.val)), r.next + 1)
         ELSE ParseFail

\* json.loads(s): the whole of s must be one JSON value
json_loads(toks) ==
    LET r == ParseValue(toks, 1) IN
    IF r.ok /\ r.next = Len(toks) + 1
    THEN [exc |-> FALSE, val |-> r.val]
    ELSE [exc |-> TRUE, val |-> JNull]

(***************************************************************************)
(* re.search(open .* close, text, re.DOTALL): greedy, so the match runs    *)
(* from the first opening bracket that has a closing bracket after it to   *)
(* the last closing bracket of the text.                                   *)
(***************************************************************************)
\* all sequences over S of length at most n
RECURSIVE SeqsUpTo(_, _)
SeqsUpTo(S, n) ==
    IF n = 0 THEN {<<>>}
    ELSE LET shorter == SeqsUpTo(S, n - 1) IN
         shorter \cup {Append(s, x) : s \in shorter, x \in S}

Positions(toks, tok) == {i \in 1..Len(toks) : toks[i] = tok}
MinOf(S) == CHOOSE m \in S : \A n \in S : m <= n
MaxOf(S) == CHOOSE m \in S : \A n \in S : m >= n

re_search(open, close, toks) ==
    LET os == Positions(toks, open)
        cs == Positions(toks, close)
    IN  IF os # {} /\ cs # {} /\ MinOf(os) < MaxOf(cs)
        THEN [found |-> TRUE, group |-> SubSeq(toks, MinOf(os), MaxOf(cs))]
        ELSE [found |-> FALSE, group |-> <<>>]

(***************************************************************************)
(* _parse_response.  A text is [none, toks]: none = TRUE is Python's None, *)
(* on which re.search raises TypeError.                                    *)
(***************************************************************************)
NoneText == [none |-> TRUE, toks |-> <<>>]
Str(toks) == [none |-> FALSE, toks |-> toks]

Returned(v) == [exc |-> FALSE, ret |-> v]
Raised == [exc |-> TRUE, ret |-> <<>>]

\* the body of the try block
parse_response_try(response_text) ==
    IF response_text.none THEN Raised
    ELSE LET arr == re_search(LB, RB, response_text.toks)
             obj == re_search(LC, RC, response_text.toks)
         IN  IF arr.found
             THEN LET v == json_loads(arr.group) IN
                  IF v.exc THEN Raised ELSE Returned(v.val.items)
             ELSE IF obj.found
             THEN LET v == json_loads(obj.group) IN
                  IF v.exc THEN Raised ELSE Returned(<<v.val>>)
             ELSE Returned(<<>>)

\* a bug: the except clause is missing
parse_response_no_except(response_text) == parse_response_try(response_text)

\* try: ... except Exception: log; return []
parse_response(response_text) ==
    LET r == parse_response_try(response_text) IN
    IF r.exc THEN Returned(<<>>) ELSE r

(***************************************************************************)
(* Column names.  A column label of the table read by pandas is a string   *)
(* (a sequence of characters here, so that strip and lower are computed)   *)
(* or, for a numeric header cell, a number.                                *)
(***************************************************************************)
StrLabel(chars) == [kind |-> "str", chars |-> chars]
IntLabel(n) == [kind |-> "int", n |-> n]

UpperToLower ==
    [c \in {"A", "E", "H", "I", "J", "K", "L", "M", "N", "O", "R", "S", "T", "U"} |->
        CASE c = "A" -> "a" [] c = "E" -> "e" [] c = "H" -> "h" [] c = "I" -> "i"
          [] c = "J" -> "j" [] c = "K" -> "k" [] c = "L" -> "l" [] c = "M" -> "m" [] c = "N" -> "n"
          [] c = "O" -> "o" [] c = "R" -> "r" [] c = "S" -> "s" [] c = "T" -> "t"
          [] c = "U" -> "u"]

\* str.lower()
lower(chars) ==
    [i \in 1..Len(chars) |->
        IF chars[i] \in DOMAIN UpperToLower THEN UpperToLower[chars[i]] ELSE chars[i]]

\* str.strip(): leading and trailing white space removed
Whitespace == {" ", "\t", "\n"}

RECURSIVE lstrip(_)
lstrip(chars) ==
    IF chars # <<>> /\ Head(chars) \in Whitespace THEN lstrip(Tail(chars)) ELSE chars

RECURSIVE rstrip(_)
rstrip(chars) ==
    IF chars # <<>> /\ chars[Len(chars)] \in Whitespace
    THEN rstrip(SubSeq(chars, 1, Len(chars) - 1))
    ELSE chars

strip(chars) == rstrip(lstrip(chars))

subject_candidates ==
    << <<"s", "u", "j", "e", "t">>,
       <<"s", "u", "b", "j", "e", "c", "t">>,
       <<"t", "h", "è", "m", "e">>,
       <<"t", "h", "e", "m", "e">>,
       <<"t", "o", "p", "i", "c">>,
       <<"m", "o", "t", "s", "_", "c", "l", "é", "s">>,
       <<"m", "o", "t", "s", "-", "c", "l", "e", "s">>,
       <<"k", "e", "y", "w", "o", "r", "d", "s">> >>

url_candidates ==
    << <<"u", "r", "l">>,
       <<"l", "i", "e", "n">>,
       <<"l", "i", "n", "k">>,
       <<"u", "r", "l", "s">>,
       <<"l", "i", "e", "n", "s">> >>

NoCol == <<>>       \* Python's None for subject_col / url_col

\* c.strip().lower() raises AttributeError on a label that is not a string
NormalizeRaises(columns) == \E i \in 1..Len(columns) : columns[i].kind # "str"

\* the columns of df_proc: original_to_lower applied to each label
Normalized(columns) == [i \in 1..Len(columns) |-> lower(strip(columns[i].chars))]

InColumns(name, cols) == \E i \in 1..Len(cols) : cols[i] = name

\* next((c for c in candidates if c in df_proc.columns), None)
RECURSIVE FirstCandidate(_, _)
FirstCandidate(candidates, cols) ==
    IF candidates = <<>> THEN NoCol
    ELSE IF InColumns(Head(candidates), cols) THEN Head(candidates)
    ELSE FirstCandidate(Tail(candidates), cols)

\* row[col]: the positions of df_proc's columns carrying that label
ColumnPositions(col, cols) == {i \in 1..Len(cols) : cols[i] = col}

(***************************************************************************)
(* The model outputs of the runs, and _parse_response tabulated over them  *)
(***************************************************************************)
R_prose == << PROSE >>
R_array == << PROSE, LB, LC, "titre:", "X", COMMA, "url:", "u2", RC, COMMA,
              LC, "titre:", "X", COMMA, "url:", "u1", RC, RB, PROSE >>
R_object == << LC, "titre:", "Y", COMMA, "url:", "u2", RC >>
R_scalars == << LB, "1", RB >>
Replies == {R_prose, R_array, R_object, R_scalars}
Contents == {NoneText, Str(<<>>)} \cup {Str(r) : r \in Replies}

ParseTable == [c \in Contents |-> parse_response(c)]

\* self._parse_response(content), content one of Contents
parse_content(c) == ParseTable[c]

(***************************************************************************)
(* The diagnostics of a finder, threaded through the calls: every call     *)
(* returns [exc, ret, st], exc = TRUE when an exception leaves the call.   *)
(***************************************************************************)
Diag(calls_, success_, heur_, errors_) ==
    [ai_calls |-> calls_, ai_success |-> success_,
     heuristic_used |-> heur_, ai_errors |-> errors_]

Out(exc_, ret_, st_) == [exc |-> exc_, ret |-> ret_, st |-> st_]

Truthy(txt) == ~txt.none /\ txt.toks # <<>>       \* bool(content)

HTTP_ERROR_MIN == 400

(***************************************************************************)
(* What the world answers to one chat call:                                *)
(*   raises   the SDK import or the request raised (network, auth, ...)    *)
(*   sdk      which OpenAI SDK is installed ("legacy" 0.28, "modern" 1.x)  *)
(*   status   the HTTP status of the OpenRouter response                   *)
(*   bad_body the OpenRouter body is not the JSON shape expected           *)
(*   content  the text of the model's message (None, "" or a text)         *)
(***************************************************************************)
AiEnv(raises_, sdk_, status_, bad_, content_) ==
    [raises |-> raises_, sdk |-> sdk_, status |-> status_,
     bad_body |-> bad_, content |-> content_]

\* _call_openai_chat: every exception is caught and becomes ""
call_openai_chat(env) ==
    IF env.raises THEN Returned(Str(<<>>))
    ELSE IF env.sdk = "legacy" THEN Returned(env.content)
    ELSE Returned(IF Truthy(env.content) THEN env.content ELSE Str(<<>>))

\* the try block of _call_openrouter_chat
call_openrouter_chat_try(st, env) ==
    IF env.raises THEN Out(TRUE, Str(<<>>), st)
    ELSE IF env.status >= HTTP_ERROR_MIN
         THEN Out(FALSE, Str(<<>>),
                  [st EXCEPT !.ai_errors = Append(@, "OpenRouter HTTP")])
    ELSE IF env.bad_body THEN Out(TRUE, Str(<<>>), st)
    ELSE IF Truthy(env.content) THEN Out(FALSE, env.content, st)
    ELSE Out(FALSE, env.content,
             [st EXCEPT !.ai_errors = Append(@, "OpenRouter: reponse vide")])

\* a bug: the except clause is missing
call_openrouter_chat_no_except(st, env) == call_openrouter_chat_try(st, env)

\* except Exception as exc: log, ai_errors.append(...), return ""
CatchOpenrouter(r) ==
    IF r.exc
    THEN Out(FALSE, Str(<<>>),
             [r.st EXCEPT !.ai_errors = Append(@, "OpenRouter exception")])
    ELSE r

\* _call_openrouter_chat
call_openrouter_chat(st, env) == CatchOpenrouter(call_openrouter_chat_try(st, env))

\* except Exception: log, return []
EmptyOnRaise(st, r) == IF r.exc THEN Out(FALSE, <<>>, st) ELSE Out(FALSE, r.ret, st)

\* return self._parse_response(content), inside a try block
ParseInTry(st, c) ==
    IF c.exc THEN Out(FALSE, <<>>, st) ELSE EmptyOnRaise(st, parse_content(c.ret))

\* _recherche_openai: try: return parse(call) except Exception: return []
recherche_openai(st, env) == ParseInTry(st, call_openai_chat(env))

\* _recherche_anthropic: the whole body is inside try/except
recherche_anthropic(st, env) ==
    IF env.raises THEN Out(FALSE, <<>>, st)
    ELSE EmptyOnRaise(st, parse_content(env.content))

\* return self._parse_response(content), outside any try block
Propagate(st, r) == Out(r.exc, r.ret, st)
ParseNoTry(c) ==
    IF c.exc THEN Out(TRUE, <<>>, c.st) ELSE Propagate(c.st, parse_content(c.ret))

\* _recherche_openrouter: no try/except of its own
recherche_openrouter(st, env) == ParseNoTry(call_openrouter_chat(st, env))

\* rechercher_avec_ia: dispatch on the provider; unknown provider: warning, []
rechercher_avec_ia(st, provider, env) ==
    IF provider = "openai" THEN recherche_openai(st, env)
    ELSE IF provider = "anthropic" THEN recherche_anthropic(st, env)
    ELSE IF provider = "openrouter" THEN recherche_openrouter(st, env)
    ELSE Out(FALSE, <<>>, st)

(***************************************************************************)
(* _extraire_info_avec_ia                                                  *)
(***************************************************************************)
SetUrl(obj, url) == JObj(PutField(obj.f, "url", JStr(url)))

\* a bug: the url the model gave is kept when there is one
KeepModelUrl(obj, url) == IF "url" \in DOMAIN obj.f THEN obj ELSE SetUrl(obj, url)

\* result[0]["url"] = url
AssignUrl(obj, url) == SetUrl(obj, url)

\* a bug: the success is counted before the assignment that may raise
FirstRecordCountedFirst(r, st, url) ==
    IF r.exc THEN Out(TRUE, JNull, st)
    ELSE IF r.ret = <<>> THEN Out(FALSE, JNull, st)
    ELSE IF ~IsDict(r.ret[1]) THEN Out(TRUE, JNull, [st EXCEPT !.ai_success = @ + 1])
    ELSE Out(FALSE, AssignUrl(r.ret[1], url), [st EXCEPT !.ai_success = @ + 1])

\* if result: result[0]["url"] = url; ai_success += 1; return result[0]
\* (the assignment raises TypeError when result[0] is no dict)
FirstRecord(r, st, url) ==
    IF r.exc THEN Out(TRUE, JNull, st)
    ELSE IF r.ret = <<>> THEN Out(FALSE, JNull, st)
    ELSE IF ~IsDict(r.ret[1]) THEN Out(TRUE, JNull, st)
    ELSE Out(FALSE, AssignUrl(r.ret[1], url), [st EXCEPT !.ai_success = @ + 1])

\* what follows the chat call: parse, then take the first element
extraire_after_call(c, url) ==
    IF c.exc THEN Out(TRUE, JNull, c.st)
    ELSE FirstRecord(parse_content(c.ret), c.st, url)

CountCall(st) == [st EXCEPT !.ai_calls = @ + 1]          \* self.ai_calls += 1
WithDiag(c, st) == Out(c.exc, c.ret, st)

\* the try block: only openai and openrouter extract with the model
extraire_info_avec_ia_try(st, provider, url, env) ==
    IF provider = "openai"
    THEN extraire_after_call(WithDiag(call_openai_chat(env), CountCall(st)), url)
    ELSE IF provider = "openrouter"
    THEN extraire_after_call(call_openrouter_chat(CountCall(st), env), url)
    ELSE Out(FALSE, JNull, st)

\* except Exception as exc: log, ai_errors.append(str(exc)); then return None
CatchExtraction(r) ==
    IF r.exc
    THEN Out(FALSE, JNull, [r.st EXCEPT !.ai_errors = Append(@, "TypeError")])
    ELSE r

extraire_info_avec_ia(st, provider, url, env) ==
    CatchExtraction(extraire_info_avec_ia_try(st, provider, url, env))

(***************************************************************************)
(* _extraire_info_heuristique.  A page (the soup) holds the content of     *)
(* each meta tag and of <title> ("" when the tag is absent or its content  *)
(* empty, " " when the content is white space only), its heading elements  *)
(* in document order, and its visible text as a sequence of items: a       *)
(* keyword, a date token or other text, each with its width in characters. *)
(* A Python str is JStr(s), None is JNull.                                 *)
(***************************************************************************)
DATE_WINDOW == 40

Blank == " "

PyTruthy(v) == v.t = "str" /\ v.s # ""        \* bool(v) for v a str or None
PyOr(a, b) == IF PyTruthy(a) THEN a ELSE b    \* a or b

\* the text a tag gives once stripped
stripped(content) == IF content = Blank THEN "" ELSE content

\* meta(prop, val): None when the tag is absent or its content empty, else
\* the content stripped
meta(content) == IF content = "" THEN JNull ELSE JStr(stripped(content))

\* soup.title.string.strip() if soup.title and soup.title.string else None
title_string(title) == IF title = "" THEN JNull ELSE JStr(stripped(title))

Heading(tag_, text_) == [tag |-> tag_, text |-> text_]

\* soup.select_one(sel): the first element with that tag, if any
select_one(headings, sel) ==
    LET at == {i \in 1..Len(headings) : headings[i].tag = sel} IN
    IF at = {} THEN JNull ELSE JStr(stripped(headings[MinOf(at)].text))

\* first_text(selector_list): the text of the first selector whose first
\* element has text
RECURSIVE first_text(_, _)
first_text(headings, selector_list) ==
    IF selector_list = <<>> THEN JNull
    ELSE IF PyTruthy(select_one(headings, Head(selector_list)))
         THEN select_one(headings, Head(selector_list))
    ELSE first_text(headings, Tail(selector_list))

\* a bug: the page title comes before the Open Graph and Twitter titles
heuristic_titre_page_title_first(soup) ==
    PyOr(title_string(soup.title),
         PyOr(meta(soup.og_title),
              PyOr(meta(soup.tw_title), first_text(soup.headings, <<"h1", "h2">>))))

\* titre = meta og:title or meta twitter:title or <title> or first_text([h1, h2])
heuristic_titre(soup) ==
    PyOr(meta(soup.og_title),
         PyOr(meta(soup.tw_title),
              PyOr(title_string(soup.title), first_text(soup.headings, <<"h1", "h2">>))))

\* description = meta og:description or meta description or meta twitter:description
heuristic_description(soup) ==
    PyOr(meta(soup.og_description),
         PyOr(meta(soup.description), meta(soup.tw_description)))

\* the items of the visible text.  A date token is what date_pattern matches:
\* "num4" D/M/YYYY, "num2" D/M/YY (the year is \d{2,4}), "txt" day month year
Kw(role_, n_) == [k |-> "kw", role |-> role_, s |-> "", form |-> "", n |-> n_]
DateTok(s_, form_, n_) == [k |-> "date", role |-> "", s |-> s_, form |-> form_, n |-> n_]
Other(n_) == [k |-> "txt", role |-> "", s |-> "", form |-> "", n |-> n_]

RECURSIVE Width(_, _, _)
Width(items, i, j) == IF i > j THEN 0 ELSE items[i].n + Width(items, i + 1, j)

\* the date tokens that begin at most window characters after the keyword at i
DatesAfter(items, i, window) ==
    {j \in (i + 1)..Len(items) :
        items[j].k = "date" /\ Width(items, i + 1, j - 1) <= window}

\* a bug: the window is not bounded
search_date_any_distance(role, items) ==
    LET kws == {i \in 1..Len(items) :
                    /\ items[i].k = "kw"
                    /\ items[i].role = role
                    /\ DatesAfter(items, i, Width(items, 1, Len(items))) # {}}
    IN  IF kws = {} THEN JNull
        ELSE JStr(items[MaxOf(DatesAfter(items, MinOf(kws), Width(items, 1, Len(items))))].s)

\* re.search(keyword .{0,40} date): leftmost keyword that has a date starting
\* at most 40 characters after its end; the greedy gap takes the farthest one;
\* None when there is no match, else group(2), the date
search_date(role, items) ==
    LET kws == {i \in 1..Len(items) :
                    /\ items[i].k = "kw"
                    /\ items[i].role = role
                    /\ DatesAfter(items, i, DATE_WINDOW) # {}}
    IN  IF kws = {} THEN JNull
        ELSE JStr(items[MaxOf(DatesAfter(items, MinOf(kws), DATE_WINDOW))].s)

\* a bug: the value is kept as it is, None included
or_nothing(v, sentinel) == v

\* v or sentinel
or_default(v, sentinel) == PyOr(v, JStr(sentinel))

\* the dict returned ("minimal")
extraire_info_heuristique(soup, url) ==
    JObj([k \in {"titre", "organisation", "date_debut", "date_cloture", "url", "description"} |->
            CASE k = "titre" -> or_default(heuristic_titre(soup), "Sans titre")
              [] k = "organisation" -> or_default(meta(soup.og_site_name), "Non spécifié")
              [] k = "date_debut" -> or_default(search_date("debut", soup.full_text), "Non spécifiée")
              [] k = "date_cloture" -> or_default(search_date("cloture", soup.full_text), "Non spécifiée")
              [] k = "url" -> JStr(url)
              [] k = "description" -> or_default(heuristic_description(soup), "")])

\* a bug: the extractor counts its own calls on the finder
heuristique_call_counting(st, soup, url) ==
    Out(FALSE, extraire_info_heuristique(soup, url),
        [st EXCEPT !.heuristic_used = @ + 1])

\* self._extraire_info_heuristique(soup, url), called on a finder whose
\* diagnostics are st: the dict, and the diagnostics after the call
heuristique_call(st, soup, url) ==
    Out(FALSE, extraire_info_heuristique(soup, url), st)

(***************************************************************************)
(* scraper_url.  fetch is what requests.get and the markup parser did:     *)
(* raises = TRUE when either raised, else the status and the page.         *)
(***************************************************************************)
Fetch(raises_, status_, page_) == [raises |-> raises_, status |-> status_, page |-> page_]

DictTruthy(v) == v.t = "obj" /\ DOMAIN v.f # {}     \* bool(dict)

\* a bug: the fallback is not counted
ExtractionOrHeuristicUncounted(ia, fetch, url) ==
    IF ia.exc THEN Out(TRUE, JNull, ia.st)
    ELSE IF DictTruthy(ia.ret) THEN Out(FALSE, ia.ret, ia.st)
    ELSE Out(FALSE, extraire_info_heuristique(fetch.page, url), ia.st)

\* if ia_result: return ia_result; else heuristic_used += 1, heuristic record
ExtractionOrHeuristic(ia, fetch, url) ==
    IF ia.exc THEN Out(TRUE, JNull, ia.st)
    ELSE IF DictTruthy(ia.ret) THEN Out(FALSE, ia.ret, ia.st)
    ELSE Out(FALSE, extraire_info_heuristique(fetch.page, url),
             [ia.st EXCEPT !.heuristic_used = @ + 1])

\* a bug: a fetch that raised falls back to the heuristic, on an empty page
scraper_url_heuristic_on_error(st, provider, url, fetch, env) ==
    IF fetch.raises
    THEN Out(FALSE, extraire_info_heuristique(fetch.page, url),
             [st EXCEPT !.heuristic_used = @ + 1])
    ELSE ExtractionOrHeuristic(extraire_info_avec_ia(st, provider, url, env), fetch, url)

\* a bug: response.raise_for_status() after the fetch
scraper_url_raise_for_status(st, provider, url, fetch, env) ==
    IF fetch.raises \/ fetch.status >= HTTP_ERROR_MIN THEN Out(TRUE, JNull, st)
    ELSE ExtractionOrHeuristic(extraire_info_avec_ia(st, provider, url, env), fetch, url)

\* the try block
scraper_url_try(st, provider, url, fetch, env) ==
    IF fetch.raises THEN Out(TRUE, JNull, st)
    ELSE ExtractionOrHeuristic(extraire_info_avec_ia(st, provider, url, env), fetch, url)

\* except Exception: log; return None
CatchScrape(r) == IF r.exc THEN Out(FALSE, JNull, r.st) ELSE r

scraper_url(st, provider, url, fetch, env) ==
    CatchScrape(scraper_url_try(st, provider, url, fetch, env))

(***************************************************************************)
(* The inputs of a run: the table, and what the world answers              *)
(***************************************************************************)
MaxRows == 2

NaN == [nan |-> TRUE, s |-> ""]                  \* an empty cell
Cell(s_) == [nan |-> FALSE, s |-> s_]
WhitespaceOnly == {"", " ", "  "}
Cells == {NaN, Cell("  "), Cell("u1")}

\* pd.notna(x) and str(x).strip()
NonBlank(cell) == ~cell.nan /\ cell.s \notin WhitespaceOnly

Headers ==
    { << StrLabel(<<"N", "o", "t", "e", "s">>) >>,
      << StrLabel(<<"N", "o", "t", "e", "s">>), StrLabel(<<"n", "o", "t", "e", "s", " ">>) >>,
      << IntLabel(2024), StrLabel(<<"N", "o", "t", "e", "s">>) >>,
      << StrLabel(<<"S", "u", "j", "e", "t">>) >>,
      << StrLabel(<<" ", "U", "R", "L", " ">>) >>,
      << StrLabel(<<"T", "h", "è", "m", "e">>), StrLabel(<<"l", "i", "e", "n">>) >>,
      << StrLabel(<<"t", "h", "e", "m", "e">>), StrLabel(<<"s", "u", "j", "e", "t">>) >>,
      << StrLabel(<<"U", "R", "L">>), StrLabel(<<"u", "r", "l">>) >>,
      << StrLabel(<<"S", "u", "j", "e", "t">>), StrLabel(<<"s", "u", "j", "e", "t", " ">>) >> }

RowsOf(n) == SeqsUpTo([1..n -> Cells], MaxRows)
Tables == UNION {{[columns |-> h, rows |-> r] : r \in RowsOf(Len(h))} : h \in Headers}
NoDf == [columns |-> <<>>, rows |-> <<>>]

NoEnv == AiEnv(FALSE, "modern", 200, FALSE, Str(<<>>))
OpenaiEnvs ==
    {AiEnv(TRUE, "modern", 200, FALSE, Str(<<>>))}
    \cup {AiEnv(FALSE, k, 200, FALSE, c) : k \in {"legacy", "modern"}, c \in Contents}
AnthropicEnvs ==
    {AiEnv(TRUE, "modern", 200, FALSE, Str(<<>>))}
    \cup {AiEnv(FALSE, "modern", 200, FALSE, c) : c \in Contents}
OpenrouterEnvs ==
    {AiEnv(TRUE, "modern", 200, FALSE, Str(<<>>)),
     AiEnv(FALSE, "modern", 200, TRUE, Str(<<>>))}
    \cup {AiEnv(FALSE, "modern", k, FALSE, Str(R_array)) : k \in {400, 503}}
    \cup {AiEnv(FALSE, "modern", k, FALSE, c) : k \in {200, 399}, c \in Contents}

Providers == {"openai", "anthropic", "openrouter", "mistral"}

\* the answers a search can get, by provider
SearchEnvs(provider) ==
    IF provider = "openai" THEN OpenaiEnvs
    ELSE IF provider = "anthropic" THEN AnthropicEnvs
    ELSE IF provider = "openrouter" THEN OpenrouterEnvs
    ELSE {NoEnv}

\* the answers an extraction can get: only openai and openrouter call the model
ExtractEnvs(provider) ==
    IF provider = "openai" THEN OpenaiEnvs
    ELSE IF provider = "openrouter" THEN OpenrouterEnvs
    ELSE {NoEnv}

\* the answers of the runs: the call raises, or the model gives R_array or R_object
RunEnvs(provider) ==
    IF provider \in {"openai", "anthropic", "openrouter"}
    THEN {AiEnv(TRUE, "modern", 200, FALSE, Str(<<>>)),
          AiEnv(FALSE, "modern", 200, FALSE, Str(R_array)),
          AiEnv(FALSE, "modern", 200, FALSE, Str(R_object))}
    ELSE {NoEnv}
RunExtractEnvs(provider) ==
    IF provider \in {"openai", "openrouter"} THEN RunEnvs(provider) ELSE {NoEnv}

NoText == <<>>
Page(og_title_, title_, headings_, full_text_) ==
    [og_title |-> og_title_, tw_title |-> "", title |-> title_, headings |-> headings_,
     og_description |-> "", description |-> "", tw_description |-> "",
     og_site_name |-> "", full_text |-> full_text_]
P_bare == Page("", "", <<>>, NoText)
P_spring ==
    Page("Spring Grant 2026", "", <<>>,
         << Kw("cloture", 8), Other(2), DateTok("15 mars 2026", "txt", 12) >>)
Pages == {P_bare, P_spring}
Fetches ==
    {Fetch(TRUE, 200, P_bare)} \cup {Fetch(FALSE, k, p) : k \in {200, 404}, p \in Pages}
RunFetches == {Fetch(TRUE, 200, P_bare), Fetch(FALSE, 200, P_spring)}
NoFetch == Fetch(TRUE, 0, P_bare)

(***************************************************************************)
(* The state of a finder and of its running traiter_fichier                *)
(***************************************************************************)
CurDiag == Diag(ai_calls, ai_success, heuristic_used, ai_errors)

SetDiag(st) ==
    /\ ai_calls' = st.ai_calls
    /\ ai_success' = st.ai_success
    /\ heuristic_used' = st.heuristic_used
    /\ ai_errors' = st.ai_errors

NoLast ==
    [op |-> "none", row |-> 0, arg |-> "", env |-> NoEnv, fetch |-> NoFetch,
     fetched |-> FALSE,
     ia_called |-> FALSE, ia |-> JNull, recs |-> <<>>, exc |-> FALSE]

(***************************************************************************)
(* __init__.  A key is None or a string (a sequence of characters).        *)
(***************************************************************************)
NoneKey == [none |-> TRUE, chars |-> <<>>]
StrKey(chars) == [none |-> FALSE, chars |-> chars]

OPENROUTER_PREFIX == <<"s", "k", "-", "o", "r", "-">>

\* (api_key or "").strip()
key_clean(key) == IF key.none THEN <<>> ELSE strip(key.chars)

\* str.startswith
startswith(chars, prefix) ==
    Len(chars) >= Len(prefix) /\ SubSeq(chars, 1, Len(prefix)) = prefix

\* a bug: the case of the key is not folded
init_provider_case_sensitive(key, configured) ==
    IF startswith(key_clean(key), OPENROUTER_PREFIX) THEN "openrouter" ELSE configured

\* if key_clean.lower().startswith("sk-or-"): "openrouter" else: api_provider
init_provider(key, configured) ==
    IF startswith(lower(key_clean(key)), OPENROUTER_PREFIX) THEN "openrouter" ELSE configured

\* the keys a finder is constructed with: white space, a head, a tail, white space
Keys ==
    LET KeyLeads == {<<>>, <<" ">>, <<"\t", " ">>}
        KeyHeads ==
            { <<>>,
              <<"s", "k", "-", "o", "r", "-">>,
              <<"S", "K", "-", "O", "R", "-">>,
              <<"s", "K", "-", "o", "R", "-">>,
              <<"s", "k", "-", "o", "r">>,
              <<"s", "k", " ", "-", "o", "r", "-">>,
              <<"s", "k", "-">>,
              <<"s", "k", "-", "a", "n", "t", "-">>,
              <<"x", "s", "k", "-", "o", "r", "-">> }
        KeyTails == {<<>>, <<"v", "1">>}
        KeyTrails == {<<>>, <<" ">>, <<"\n">>}
    IN  {NoneKey} \cup
        {StrKey(a \o b \o c \o d) :
            a \in KeyLeads, b \in KeyHeads, c \in KeyTails, d \in KeyTrails}

\* the arguments of a construction: the key and the configured provider
Build(key_, provider_) == [key |-> key_, provider |-> provider_]
Builds == {Build(k, p) : k \in Keys, p \in Providers}

\* the finders that run: a plain key with each provider, and an OpenRouter
\* key with the default provider
RunBuilds ==
    {Build(StrKey(<<"s", "k", "-", "v", "1">>), p) : p \in Providers}
    \cup {Build(StrKey(<<"s", "k", "-", "o", "r", "-", "v", "1">>), "openai")}

\* __init__(api_key, api_provider)
Construct(builds) ==
    /\ built \in builds
    /\ api_key = key_clean(built.key)
    /\ api_provider = init_provider(built.key, built.provider)
    /\ results = <<>>
    /\ ai_calls = 0
    /\ ai_success = 0
    /\ heuristic_used = 0
    /\ ai_errors = <<>>
    /\ pc = "idle"
    /\ idx = 0
    /\ df = NoDf
    /\ subject_col = NoCol
    /\ url_col = NoCol
    /\ calls = <<>>
    /\ last = NoLast
    /\ sleeps = 0
    /\ warned = FALSE
    /\ runs = 0
    /\ ops = 0

InitFinder == Construct(RunBuilds)

\* list.extend
ListExtendFront(l, xs) == xs \o l           \* a bug: inserted at the front
ListExtend(l, xs) == l \o xs

\* list.append
ListAppendUnique(l, x) ==                   \* a bug: a record already there is dropped
    IF \E i \in 1..Len(l) : l[i] = x THEN l ELSE Append(l, x)
ListAppend(l, x) == Append(l, x)

\* where the loops stand after row i - 1 of a path
UrlPosition(i, uc, n) ==
    IF uc # NoCol /\ i <= n THEN [pc |-> "url", idx |-> i] ELSE [pc |-> "done", idx |-> 0]
SubjectPosition(i, sc, uc, n) ==
    IF sc # NoCol /\ i <= n THEN [pc |-> "subject", idx |-> i] ELSE UrlPosition(1, uc, n)

\* row[col] when the label col is carried by one column; by several, row[col]
\* is a Series and "pd.notna(...) and ..." raises ValueError
Ambiguous(col) == Cardinality(ColumnPositions(col, Normalized(df.columns))) > 1
CellAt(i, col) ==
    df.rows[i][CHOOSE c \in ColumnPositions(col, Normalized(df.columns)) : TRUE]

(***************************************************************************)
(* traiter_fichier, one action per step: the read with the resolution of   *)
(* the columns, then one action per row of the subject loop and of the     *)
(* url loop.                                                               *)
(***************************************************************************)
Resting == {"idle", "done", "aborted", "raised"}

\* lire_fichier_excel returned None: "Abandon", return
ReadFails ==
    /\ pc \in Resting
    /\ pc' = "aborted"
    /\ idx' = 0
    /\ df' = NoDf
    /\ subject_col' = NoCol
    /\ url_col' = NoCol
    /\ calls' = <<>>
    /\ last' = NoLast
    /\ sleeps' = 0
    /\ warned' = FALSE
    /\ runs' = runs + 1
    /\ UNCHANGED <<api_provider, api_key, built, results, ai_calls, ai_success, heuristic_used, ai_errors, ops>>

\* the table is read, but a label is no string: c.strip() raises AttributeError
ReadThenNormalizeRaises(tables) ==
    /\ pc \in Resting
    /\ \E t \in tables :
        /\ NormalizeRaises(t.columns)
        /\ df' = t
    /\ pc' = "raised"
    /\ idx' = 0
    /\ subject_col' = NoCol
    /\ url_col' = NoCol
    /\ calls' = <<>>
    /\ last' = NoLast
    /\ sleeps' = 0
    /\ warned' = FALSE
    /\ runs' = runs + 1
    /\ UNCHANGED <<api_provider, api_key, built, results, ai_calls, ai_success, heuristic_used, ai_errors, ops>>

\* the table is read, the columns resolved, self.results reset
\* a bug: the diagnostics start again with the results
ResetResultsAndDiagnostics ==
    /\ results' = <<>>
    /\ SetDiag(Diag(0, 0, 0, <<>>))

\* self.results = []  # Reset results: the diagnostics are not touched
ResetResults ==
    /\ results' = <<>>
    /\ UNCHANGED <<ai_calls, ai_success, heuristic_used, ai_errors>>

ReadAndResolve(tables) ==
    /\ pc \in Resting
    /\ \E t \in tables :
        /\ ~NormalizeRaises(t.columns)
        /\ LET cols == Normalized(t.columns)
               sc == FirstCandidate(subject_candidates, cols)
               uc == FirstCandidate(url_candidates, cols)
               pos == SubjectPosition(1, sc, uc, Len(t.rows))
           IN  /\ df' = t
               /\ subject_col' = sc
               /\ url_col' = uc
               /\ warned' = (sc = NoCol /\ uc = NoCol)
               /\ pc' = pos.pc
               /\ idx' = pos.idx
    /\ ResetResults
    /\ calls' = <<>>
    /\ last' = NoLast
    /\ sleeps' = 0
    /\ runs' = runs + 1
    /\ UNCHANGED <<api_provider, api_key, built, ops>>

\* a step of a loop raised: the exception leaves traiter_fichier
LoopRaises ==
    /\ pc' = "raised"
    /\ idx' = 0
    /\ UNCHANGED <<api_provider, api_key, built, results, df, subject_col, url_col, calls, last,
                   sleeps, warned, runs, ops>>

\* the loop goes on to the next row, or to the next loop, or ends
Goto(pos) ==
    /\ pc' = pos.pc
    /\ idx' = pos.idx
    /\ UNCHANGED <<api_provider, api_key, built, df, subject_col, url_col, warned, runs, ops>>

\* subject loop, the label is carried by two columns: ValueError
SubjectRowAmbiguous ==
    /\ pc = "subject"
    /\ Ambiguous(subject_col)
    /\ LoopRaises
    /\ UNCHANGED <<ai_calls, ai_success, heuristic_used, ai_errors>>

\* subject loop, empty or blank cell: nothing is done for the row
SubjectRowSkip ==
    /\ pc = "subject"
    /\ ~Ambiguous(subject_col)
    /\ ~NonBlank(CellAt(idx, subject_col))
    /\ Goto(SubjectPosition(idx + 1, subject_col, url_col, Len(df.rows)))
    /\ UNCHANGED <<results, ai_calls, ai_success, heuristic_used, ai_errors,
                   calls, last, sleeps>>

\* a bug: the delay is made only when the search gave records
ExtendAndSleepIfRecords(r, env) ==
    /\ SetDiag(r.st)
    /\ last' = [op |-> "search", row |-> idx, arg |-> CellAt(idx, subject_col).s,
                env |-> env, fetch |-> NoFetch, fetched |-> FALSE,
                ia_called |-> FALSE, ia |-> JNull, recs |-> r.ret, exc |-> r.exc]
    /\ results' = ListExtend(results, r.ret)
    /\ calls' = Append(calls, [path |-> "subject", row |-> idx, recs |-> r.ret])
    /\ sleeps' = IF r.ret = <<>> THEN sleeps ELSE sleeps + 1
    /\ Goto(SubjectPosition(idx + 1, subject_col, url_col, Len(df.rows)))

\* self.results.extend(<the list returned>); time.sleep(1); next row
\* (an exception of the call leaves traiter_fichier)
ExtendAndSleep(r, env) ==
    /\ SetDiag(r.st)
    /\ last' = [op |-> "search", row |-> idx, arg |-> CellAt(idx, subject_col).s,
                env |-> env, fetch |-> NoFetch, fetched |-> FALSE,
                ia_called |-> FALSE, ia |-> JNull, recs |-> r.ret, exc |-> r.exc]
    /\ IF r.exc
       THEN /\ pc' = "raised"
            /\ idx' = 0
            /\ UNCHANGED <<api_provider, api_key, built, results, df, subject_col, url_col,
                           calls, sleeps, warned, runs, ops>>
       ELSE /\ results' = ListExtend(results, r.ret)
            /\ calls' = Append(calls, [path |-> "subject", row |-> idx, recs |-> r.ret])
            /\ sleeps' = sleeps + 1
            /\ Goto(SubjectPosition(idx + 1, subject_col, url_col, Len(df.rows)))

\* subject loop: self.results.extend(self.rechercher_avec_ia(str(sujet))); sleep
SubjectRowSearch(envs) ==
    /\ pc = "subject"
    /\ ~Ambiguous(subject_col)
    /\ NonBlank(CellAt(idx, subject_col))
    /\ \E env \in envs :
        ExtendAndSleep(rechercher_avec_ia(CurDiag, api_provider, env), env)

\* url loop, the label is carried by two columns: ValueError
UrlRowAmbiguous ==
    /\ pc = "url"
    /\ Ambiguous(url_col)
    /\ LoopRaises
    /\ UNCHANGED <<ai_calls, ai_success, heuristic_used, ai_errors>>

\* url loop, empty or blank cell
UrlRowSkip ==
    /\ pc = "url"
    /\ ~Ambiguous(url_col)
    /\ ~NonBlank(CellAt(idx, url_col))
    /\ Goto(UrlPosition(idx + 1, url_col, Len(df.rows)))
    /\ UNCHANGED <<results, ai_calls, ai_success, heuristic_used, ai_errors,
                   calls, last, sleeps>>

\* if result: self.results.append(result); time.sleep(1); next row
AppendAndSleep(r, ia, fetch, env) ==
    /\ SetDiag(r.st)
    /\ last' = [op |-> "scrape", row |-> idx, arg |-> CellAt(idx, url_col).s,
                env |-> env, fetch |-> fetch, fetched |-> ~fetch.raises,
                ia_called |-> ~fetch.raises /\ api_provider \in {"openai", "openrouter"},
                ia |-> IF fetch.raises THEN JNull ELSE ia.ret,
                recs |-> IF DictTruthy(r.ret) THEN <<r.ret>> ELSE <<>>,
                exc |-> r.exc \/ (~fetch.raises /\ ia.exc)]
    /\ IF r.exc
       THEN /\ pc' = "raised"
            /\ idx' = 0
            /\ UNCHANGED <<api_provider, api_key, built, results, df, subject_col, url_col,
                           calls, sleeps, warned, runs, ops>>
       ELSE /\ results' = IF DictTruthy(r.ret) THEN ListAppend(results, r.ret)
                          ELSE results
            /\ calls' = Append(calls, [path |-> "url", row |-> idx,
                                       recs |-> IF DictTruthy(r.ret) THEN <<r.ret>> ELSE <<>>])
            /\ sleeps' = sleeps + 1
            /\ Goto(UrlPosition(idx + 1, url_col, Len(df.rows)))

\* url loop: result = self.scraper_url(str(url)); if result: append; sleep
UrlRowScrape(fetches, envs) ==
    /\ pc = "url"
    /\ ~Ambiguous(url_col)
    /\ NonBlank(CellAt(idx, url_col))
    /\ \E fetch \in fetches : \E env \in envs :
        AppendAndSleep(scraper_url(CurDiag, api_provider, CellAt(idx, url_col).s, fetch, env),
                       extraire_info_avec_ia(CurDiag, api_provider, CellAt(idx, url_col).s, env),
                       fetch, env)

(***************************************************************************)
(* Direct calls of rechercher_avec_ia and scraper_url on a finder          *)
(***************************************************************************)
MaxOps == 2

Subjects == {"energie"}
Urls == {"u1", "u2"}

Called(op_, arg_, env_, fetch_, ia_called_, ia_, recs_, exc_) ==
    /\ last' = [op |-> op_, row |-> 0, arg |-> arg_, env |-> env_, fetch |-> fetch_,
                fetched |-> ~fetch_.raises, ia_called |-> ia_called_, ia |-> ia_,
                recs |-> recs_, exc |-> exc_]
    /\ ops' = ops + 1
    /\ UNCHANGED <<api_provider, api_key, built, results, pc, idx, df, subject_col, url_col,
                   calls, sleeps, warned, runs>>

SearchEffect(r, sujet, env) ==
    /\ SetDiag(r.st)
    /\ Called("search", sujet, env, NoFetch, FALSE, JNull, r.ret, r.exc)

\* finder.rechercher_avec_ia(sujet)
CallSearch(envs) ==
    /\ pc \in Resting
    /\ ops < MaxOps
    /\ \E sujet \in Subjects : \E env \in envs :
        SearchEffect(rechercher_avec_ia(CurDiag, api_provider, env), sujet, env)

ScrapeEffect(r, ia, url, fetch, env) ==
    /\ SetDiag(r.st)
    /\ Called("scrape", url, env, fetch,
              ~fetch.raises /\ api_provider \in {"openai", "openrouter"},
              IF fetch.raises THEN JNull ELSE ia.ret,
              IF DictTruthy(r.ret) THEN <<r.ret>> ELSE <<>>,
              r.exc \/ (~fetch.raises /\ ia.exc))

\* finder.scraper_url(url)
CallScrape(fetches, envs) ==
    /\ pc \in Resting
    /\ ops < MaxOps
    /\ \E url \in Urls : \E fetch \in fetches : \E env \in envs :
        ScrapeEffect(scraper_url(CurDiag, api_provider, url, fetch, env),
                     extraire_info_avec_ia(CurDiag, api_provider, url, env),
                     url, fetch, env)

(***************************************************************************)
(* backend/main.py, /process: the API key handed to the finder.  A value   *)
(* of os.environ or of the .env file is a sequence of characters, <<>>     *)
(* when the variable is not set.                                           *)
(***************************************************************************)
KeyVars == {"OPENROUTER_API_KEY", "OPENAI_API_KEY", "ANTHROPIC_API_KEY", "AP_FINDER_API_KEY"}

NoConfig == [environ |-> [v \in KeyVars |-> <<>>], dotenv |-> [v \in KeyVars |-> <<>>]]

NoInfo == [none |-> TRUE]

ServerIdle ==
    /\ config = NoConfig
    /\ reqs = <<>>
    /\ last_ai_info = NoInfo
    /\ tmpdirs = {}

ANTHROPIC_PREFIX == <<"s", "k", "-", "a", "n", "t", "-">>

\* the variable of the selected provider: if prov == "openrouter": ... elif ...
provider_var(prov) ==
    IF prov = "openrouter" THEN "OPENROUTER_API_KEY"
    ELSE IF prov = "openai" THEN "OPENAI_API_KEY"
    ELSE IF prov = "anthropic" THEN "ANTHROPIC_API_KEY"
    ELSE ""

\* (values.get(VAR) or "").strip() for the provider's variable, "" without one
provider_value(values, prov) ==
    IF provider_var(prov) = "" THEN <<>> ELSE strip(values[provider_var(prov)])

\* a or b on two str
StrOr(a, b) == IF a # <<>> THEN a ELSE b

\* the source of the key: "ui", "env:VAR", "dotenv:VAR", or "" (NoSource)
NoSource == <<>>
Source(kind, var) == <<kind, var>>

\* if not effective_key: the provider's variable in os.environ
key_from_environ(k, prov, environ) ==
    IF k.key # <<>> THEN k
    ELSE IF provider_value(environ, prov) # <<>>
         THEN [key |-> provider_value(environ, prov), source |-> Source("env", provider_var(prov))]
    ELSE k

\* if not effective_key: the provider's variable in the .env file, then
\* AP_FINDER_API_KEY in the .env file
key_from_dotenv(k, prov, dotenv) ==
    IF k.key # <<>> THEN k
    ELSE IF provider_value(dotenv, prov) # <<>>
         THEN [key |-> provider_value(dotenv, prov), source |-> Source("dotenv", provider_var(prov))]
    ELSE IF strip(dotenv["AP_FINDER_API_KEY"]) # <<>>
         THEN [key |-> strip(dotenv["AP_FINDER_API_KEY"]),
               source |-> Source("dotenv", "AP_FINDER_API_KEY")]
    ELSE k

\* if key_source and key_source != "ui": the provider follows the key's prefix
detect_provider(k, provider) ==
    IF k.source = NoSource \/ k.source = Source("ui", "") THEN provider
    ELSE IF startswith(lower(k.key), OPENROUTER_PREFIX) THEN "openrouter"
    ELSE IF startswith(lower(k.key), ANTHROPIC_PREFIX) THEN "anthropic"
    ELSE IF provider = "" THEN "openai"
    ELSE provider

\* if not effective_key, once more: the provider's variable in the .env file,
\* then the first of AP_FINDER_API_KEY, OPENROUTER_API_KEY, OPENAI_API_KEY,
\* ANTHROPIC_API_KEY there that is not empty, stripped; key_source is not set
key_last_resort(k, prov, dotenv) ==
    IF k.key # <<>> THEN k
    ELSE IF provider_value(dotenv, prov) # <<>>
         THEN [k EXCEPT !.key = provider_value(dotenv, prov)]
    ELSE [k EXCEPT !.key =
            strip(StrOr(dotenv["AP_FINDER_API_KEY"],
                  StrOr(dotenv["OPENROUTER_API_KEY"],
                  StrOr(dotenv["OPENAI_API_KEY"], dotenv["ANTHROPIC_API_KEY"]))))]

\* if not effective_provider and the key starts with sk-or-: openrouter;
\* the finder gets effective_provider or "openai"
finder_provider(k, provider) ==
    IF provider = "" /\ startswith(lower(k.key), OPENROUTER_PREFIX) THEN "openrouter"
    ELSE IF provider = "" THEN "openai"
    ELSE provider

\* lines 144-231 of process: the key, its source and the provider the finder
\* is constructed with, from the form fields and the configuration
resolve_key(form_key, form_provider, cfg) ==
    LET ui == [key |-> strip(form_key),
               source |-> IF strip(form_key) # <<>> THEN Source("ui", "") ELSE NoSource]
        found == key_from_dotenv(key_from_environ(ui, form_provider, cfg.environ),
                                 form_provider, cfg.dotenv)
        detected == detect_provider(found, form_provider)
        final == key_last_resort(found, detected, cfg.dotenv)
    IN  [key |-> final.key, key_source |-> final.source,
         provider |-> finder_provider(final, detected)]

(***************************************************************************)
(* Spec: a finder is constructed, then traiter_fichier runs once           *)
(***************************************************************************)
NoMarkup == [soup |-> P_bare, url |-> ""]

ParseIdle ==
    /\ text = NoneText
    /\ parsed = [exc |-> FALSE, ret |-> <<>>]
    /\ ppc = "off"
    /\ markup = NoMarkup
    /\ extracted = <<>>
    /\ ServerIdle

Init == InitFinder /\ ParseIdle

Fresh == runs = 0

Next ==
    \/ (Fresh /\ ReadFails /\ UNCHANGED pvars)
    \/ (Fresh /\ ReadThenNormalizeRaises(Tables) /\ UNCHANGED pvars)
    \/ (Fresh /\ ReadAndResolve(Tables) /\ UNCHANGED pvars)
    \/ (SubjectRowAmbiguous /\ UNCHANGED pvars)
    \/ (SubjectRowSkip /\ UNCHANGED pvars)
    \/ (SubjectRowSearch(RunEnvs(api_provider)) /\ UNCHANGED pvars)
    \/ (UrlRowAmbiguous /\ UNCHANGED pvars)
    \/ (UrlRowSkip /\ UNCHANGED pvars)
    \/ (UrlRowScrape(RunFetches, RunExtractEnvs(api_provider)) /\ UNCHANGED pvars)

Spec == Init /\ [][Next]_vars

(***************************************************************************)
(* SpecInit: a finder is constructed with any key and any configured       *)
(* provider; the run that follows fails to read its table                  *)
(***************************************************************************)
InitAnyKey == Construct(Builds) /\ ParseIdle

NextInit == Fresh /\ ReadFails /\ UNCHANGED pvars

SpecInit == InitAnyKey /\ [][NextInit]_vars

(***************************************************************************)
(* SpecCalls: a finder is constructed, then searches and scrapes are       *)
(* called on it directly, with every answer the world can give             *)
(***************************************************************************)
NextCalls ==
    \/ (CallSearch(SearchEnvs(api_provider)) /\ UNCHANGED pvars)
    \/ (CallScrape(Fetches, ExtractEnvs(api_provider)) /\ UNCHANGED pvars)

SpecCalls == Init /\ [][NextCalls]_vars

(***************************************************************************)
(* SpecReuse: a finder is constructed, then traiter_fichier runs on it     *)
(* several times, on short tables; a search may also be answered by a     *)
(* JSON array of numbers                                                   *)
(***************************************************************************)
MaxRuns == 2

ShortTables == {t \in Tables : Len(t.rows) <= 1}

MayRun == runs < MaxRuns

NextReuse ==
    \/ (MayRun /\ ReadFails /\ UNCHANGED pvars)
    \/ (MayRun /\ ReadThenNormalizeRaises(ShortTables) /\ UNCHANGED pvars)
    \/ (MayRun /\ ReadAndResolve(ShortTables) /\ UNCHANGED pvars)
    \/ (SubjectRowAmbiguous /\ UNCHANGED pvars)
    \/ (SubjectRowSkip /\ UNCHANGED pvars)
    \/ (SubjectRowSearch(RunEnvs(api_provider) \cup
                          {e \in SearchEnvs(api_provider) :
                              e.status = 200 /\ e.sdk = "modern" /\ e.content = Str(R_scalars)})
        /\ UNCHANGED pvars)
    \/ (UrlRowAmbiguous /\ UNCHANGED pvars)
    \/ (UrlRowSkip /\ UNCHANGED pvars)
    \/ (UrlRowScrape(RunFetches, RunExtractEnvs(api_provider)) /\ UNCHANGED pvars)

SpecReuse == Init /\ [][NextReuse]_vars

(***************************************************************************)
(* SpecParse: _parse_response applied to every short text                  *)
(***************************************************************************)
ParseAlphabet == {LB, RB, LC, RC, COMMA, "titre:", "X", PROSE}

ParseInputs(n) == {NoneText} \cup {Str(s) : s \in SeqsUpTo(ParseAlphabet, n)}

NotCalled == [exc |-> FALSE, ret |-> <<>>]

InitParse ==
    /\ text \in ParseInputs(MaxTextLen)
    /\ parsed = NotCalled
    /\ ppc = "start"
    /\ markup = NoMarkup
    /\ extracted = <<>>
    /\ ServerIdle
    /\ InitFinder
    /\ api_provider = "openai"

CallParse ==
    /\ ppc = "start"
    /\ parsed' = parse_response(text)
    /\ ppc' = "done"
    /\ UNCHANGED <<text, markup, extracted, svars, fvars>>

NextParse == CallParse

SpecParse == InitParse /\ [][NextParse]_vars

(***************************************************************************)
(* SpecHeur: _extraire_info_heuristique applied, several times, to one     *)
(* page out of every small page                                            *)
(***************************************************************************)
MaxHeadings == 2
MaxItems == 3
MaxHeurCalls == 2

\* the pages: those that differ in their title sources, those that differ
\* in their visible text, those that differ in their other meta tags
Markups(nh, ni) ==
    LET HeadingAlphabet ==
            {Heading("h1", "Appel A"), Heading("h1", Blank), Heading("h2", "Appel B"),
             Heading("h3", "Appel C")}
        ItemAlphabet ==
            {Kw("cloture", 8), Kw("debut", 5), Other(2), Other(DATE_WINDOW),
             Other(DATE_WINDOW + 1), DateTok("15/03/2026", "num4", 10),
             DateTok("15 mars 2026", "txt", 12), DateTok("15/03/26", "num2", 8)}
        TitlePages ==
            {[Page(og, t, hs, NoText) EXCEPT !.tw_title = tw] :
                og \in {"", Blank, "OG title"}, tw \in {"", "TW title"},
                t \in {"", Blank, "Page title"}, hs \in SeqsUpTo(HeadingAlphabet, nh)}
        TextPages == {Page("", "", <<>>, items) : items \in SeqsUpTo(ItemAlphabet, ni)}
        MetaPages ==
            {[P_bare EXCEPT !.og_description = a, !.description = b,
                            !.tw_description = c, !.og_site_name = o] :
                a \in {"", Blank, "OG description"}, b \in {"", "Description"},
                c \in {"", Blank, "TW description"}, o \in {"", Blank, "Fondation"}}
    IN  {[soup |-> p, url |-> u] : p \in TitlePages \cup TextPages \cup MetaPages, u \in Urls}

InitHeur ==
    /\ text = NoneText
    /\ parsed = NotCalled
    /\ ppc = "off"
    /\ markup \in Markups(MaxHeadings, MaxItems)
    /\ extracted = <<>>
    /\ ServerIdle
    /\ InitFinder
    /\ api_provider = "openai"

HeuristicEffect(r) ==
    /\ extracted' = Append(extracted, [exc |-> r.exc, ret |-> r.ret, before |-> CurDiag])
    /\ SetDiag(r.st)
    /\ UNCHANGED <<text, parsed, ppc, markup, svars, api_provider, api_key, built,
                   results, pc, idx, df, subject_col, url_col, calls, last, sleeps,
                   warned, runs, ops>>

\* finder._extraire_info_heuristique(soup, url)
CallHeuristic ==
    /\ pc \in Resting
    /\ Len(extracted) < MaxHeurCalls
    /\ HeuristicEffect(heuristique_call(CurDiag, markup.soup, markup.url))

NextHeur == CallHeuristic

SpecHeur == InitHeur /\ [][NextHeur]_vars

(***************************************************************************)
(* SpecLife: a finder is constructed, then traiter_fichier runs and calls   *)
(* of the heuristic extractor on one page follow each other in any order   *)
(***************************************************************************)
InitLife ==
    /\ text = NoneText
    /\ parsed = NotCalled
    /\ ppc = "off"
    /\ markup = [soup |-> P_spring, url |-> "u1"]
    /\ extracted = <<>>
    /\ ServerIdle
    /\ InitFinder

\* the one-row tables with a subject and a url
LifeTables ==
    {t \in ShortTables :
        /\ t.columns = << StrLabel(<<"T", "h", "è", "m", "e">>), StrLabel(<<"l", "i", "e", "n">>) >>
        /\ Len(t.rows) = 1
        /\ \A c \in 1..2 : NonBlank(t.rows[1][c])}

NextLife ==
    \/ (MayRun /\ ReadFails /\ UNCHANGED pvars)
    \/ (MayRun /\ ReadAndResolve(LifeTables) /\ UNCHANGED pvars)
    \/ (SubjectRowSearch(RunEnvs(api_provider)) /\ UNCHANGED pvars)
    \/ (UrlRowScrape(RunFetches, RunExtractEnvs(api_provider)) /\ UNCHANGED pvars)
    \/ CallHeuristic

SpecLife == InitLife /\ [][NextLife]_vars

(***************************************************************************)
(* SpecKey: the key resolution of /process applied to every form and every *)
(* configuration                                                           *)
(***************************************************************************)
NoFinder == [api_provider |-> "", diag |-> Diag(0, 0, 0, <<>>), results |-> <<>>]
NoResponse == [status |-> 0]

\* a request as it arrives: the form fields api_key and api_provider
NewRequest(pc_, form_key, form_provider) ==
    [pc |-> pc_, api_key |-> form_key, api_provider |-> form_provider,
     key |-> <<>>, key_source |-> NoSource, provider |-> "",
     finder |-> NoFinder, response |-> NoResponse]

\* every variable set or not in os.environ and in the .env file, each with a
\* value of its own; AP_FINDER_API_KEY may also be blank in the file
KeyConfigs ==
    LET InEnviron == [OPENROUTER_API_KEY |-> <<"s", "k", "-", "o", "r", "-", "e">>,
                      OPENAI_API_KEY |-> <<"s", "k", "-", "e", "1">>,
                      ANTHROPIC_API_KEY |-> <<"s", "k", "-", "a", "n", "t", "-", "e">>,
                      AP_FINDER_API_KEY |-> <<"s", "k", "-", "e", "4">>]
        InFile == [OPENROUTER_API_KEY |-> <<"s", "k", "-", "o", "r", "-", "f">>,
                   OPENAI_API_KEY |-> <<"s", "k", "-", "f", "1">>,
                   ANTHROPIC_API_KEY |-> <<"s", "k", "-", "a", "n", "t", "-", "f">>,
                   AP_FINDER_API_KEY |-> <<"s", "k", "-", "f", "4", " ">>]
    IN  {[environ |-> e, dotenv |-> d] :
            e \in {f \in [KeyVars -> {<<>>} \cup {InEnviron[v] : v \in KeyVars}] :
                      \A v \in KeyVars : f[v] \in {<<>>, InEnviron[v]}},
            d \in {f \in [KeyVars -> {<<>>, <<" ">>} \cup {InFile[v] : v \in KeyVars}] :
                      \A v \in KeyVars :
                          \/ f[v] \in {<<>>, InFile[v]}
                          \/ v = "AP_FINDER_API_KEY" /\ f[v] = <<" ">>}}

FormKeys == {<<>>, <<" ">>, <<" ", "s", "k", "-", "u", "i">>}
FormProviders == {"openai", "openrouter", "anthropic", "mistral", ""}

InitKey ==
    /\ InitFinder
    /\ api_provider = "openai"
    /\ text = NoneText
    /\ parsed = NotCalled
    /\ ppc = "off"
    /\ markup = NoMarkup
    /\ extracted = <<>>
    /\ config \in KeyConfigs
    /\ reqs \in {<< NewRequest("form", k, p) >> : k \in FormKeys, p \in FormProviders}
    /\ last_ai_info = NoInfo
    /\ tmpdirs = {}

\* the request with the key, its source and the provider resolved
Resolved(req, r) ==
    [req EXCEPT !.key = r.key, !.key_source = r.key_source, !.provider = r.provider]

CallResolveKey ==
    /\ reqs[1].pc = "form"
    /\ reqs' = << [Resolved(reqs[1], resolve_key(reqs[1].api_key, reqs[1].api_provider, config))
                      EXCEPT !.pc = "resolved"] >>
    /\ UNCHANGED <<text, parsed, ppc, markup, extracted, config, last_ai_info, tmpdirs, fvars>>

NextKey == CallResolveKey

SpecKey == InitKey /\ [][NextKey]_vars

(***************************************************************************)
(* SpecServe: /process requests arrive and are handled concurrently.  The  *)
(* handler is a coroutine of one event loop: it yields at its only await,  *)
(* the read of the upload, and runs from there to its return in one piece. *)
(* The table of a request has one row with a url.                          *)
(***************************************************************************)
MaxReqs == 2

\* finder = AppelsProjetFinder(api_key=..., api_provider=...);
\* finder.traiter_fichier(in_path): the finder of the request after its run
run_finder(key, provider, world) ==
    LET prov == init_provider(StrKey(key), provider)
        r == scraper_url(Diag(0, 0, 0, <<>>), prov, "u1", world.fetch, world.env)
    IN  [api_provider |-> prov, diag |-> r.st,
         results |-> IF DictTruthy(r.ret) THEN <<r.ret>> ELSE <<>>]

\* _last_ai_info = {...}: str(x or "") gives "" for a counter at 0
ai_info(finder, key_source_) ==
    LET Text(n) == IF n = 0 THEN <<>> ELSE <<n>> IN
    [none |-> FALSE, provider |-> finder.api_provider,
     ai_calls |-> Text(finder.diag.ai_calls), ai_success |-> Text(finder.diag.ai_success),
     heuristic_used |-> Text(finder.diag.heuristic_used),
     ai_errors |-> finder.diag.ai_errors, key_source |-> key_source_]

\* a bug: the global is read as it was before this request stored its own
info_before_store(before, stored) == before

\* the _last_ai_info read at line 300: no await lies between the store at 254
\* and this read, so it is what this request stored
info_at_response(before, stored) == stored

\* the X-AI-* headers, from the request's finder and from _last_ai_info
response_headers(finder, info) ==
    [provider |-> finder.api_provider, ai_calls |-> finder.diag.ai_calls,
     ai_success |-> finder.diag.ai_success, heuristic_used |-> finder.diag.heuristic_used,
     ai_errors |-> finder.diag.ai_errors,
     key_source |-> IF info.none THEN NoSource ELSE info.key_source]

\* the request leaves the handler with a JSON error
Failed(req, error_) == [req EXCEPT !.pc = "closed", !.response = [status |-> 500, error |-> error_]]

\* what the world does to a request: the stage that fails ("none": no stage),
\* and what the scrape of its row gets
Stages == {"upload", "run", "exists", "read", "none"}
Worlds(envs) == {[fails |-> f, fetch |-> ft, env |-> e] : f \in Stages, ft \in RunFetches, e \in envs}

\* process, from the end of `await excel_file.read()` to its return, given the
\* resolved key k and the finder after its run: the request, _last_ai_info,
\* and whether shutil.rmtree(tmpdir) was called
process_after_await(req, k, finder, info, fails) ==
    LET stored == ai_info(finder, k.key_source)
        ran == [Resolved(req, k) EXCEPT !.finder = finder]
    IN  IF fails = "upload"
        THEN [req |-> Failed(req, "exception"), info |-> info, rmtree |-> FALSE]
        ELSE IF fails = "run"
        THEN [req |-> Failed(Resolved(req, k), "exception"), info |-> info, rmtree |-> FALSE]
        ELSE IF fails = "exists"
        THEN [req |-> Failed(ran, "generation_failed"), info |-> stored, rmtree |-> TRUE]
        ELSE IF fails = "read"
        THEN [req |-> Failed(ran, "read_failed"), info |-> stored, rmtree |-> TRUE]
        ELSE [req |-> [ran EXCEPT !.pc = "sending",
                                  !.response =
                                      [status |-> 200,
                                       headers |-> response_headers(
                                           finder, info_at_response(info, stored))]],
              info |-> stored, rmtree |-> FALSE]

\* OPENAI_API_KEY is set in the process environment
ServeConfig == [NoConfig EXCEPT !.environ["OPENAI_API_KEY"] = <<"s", "k", "-", "e", "1">>]

InitServe ==
    /\ InitFinder
    /\ api_provider = "openai"
    /\ text = NoneText
    /\ parsed = NotCalled
    /\ ppc = "off"
    /\ markup = NoMarkup
    /\ extracted = <<>>
    /\ config = ServeConfig
    /\ reqs = <<>>
    /\ last_ai_info = NoInfo
    /\ tmpdirs = {}

\* a request arrives: tmpdir = tempfile.mkdtemp(...), then await excel_file.read()
Receive ==
    /\ Len(reqs) < MaxReqs
    /\ \E k \in {<<>>, <<"s", "k", "-", "o", "r", "-", "u", "i">>} :
        reqs' = Append(reqs, NewRequest("reading", k, "openai"))
    /\ tmpdirs' = tmpdirs \cup {Len(reqs) + 1}
    /\ UNCHANGED <<text, parsed, ppc, markup, extracted, config, last_ai_info, fvars>>

\* the upload is read and the handler runs to its return
Handle ==
    \E r \in 1..Len(reqs) :
        /\ reqs[r].pc = "reading"
        /\ \E k \in {resolve_key(reqs[r].api_key, reqs[r].api_provider, config)} :
           \E world \in Worlds(RunExtractEnvs(init_provider(StrKey(k.key), k.provider))) :
           \E finder \in {run_finder(k.key, k.provider, world)} :
           \E out \in {process_after_await(reqs[r], k, finder, last_ai_info, world.fails)} :
            /\ reqs' = [reqs EXCEPT ![r] = out.req]
            /\ last_ai_info' = out.info
            /\ tmpdirs' = IF out.rmtree THEN tmpdirs \ {r} ELSE tmpdirs
        /\ UNCHANGED <<text, parsed, ppc, markup, extracted, config, fvars>>

\* the response has been sent: BackgroundTask(lambda: shutil.rmtree(tmpdir, ...))
SentThenCleaned ==
    \E r \in 1..Len(reqs) :
        /\ reqs[r].pc = "sending"
        /\ reqs' = [reqs EXCEPT ![r].pc = "closed"]
        /\ tmpdirs' = tmpdirs \ {r}
        /\ UNCHANGED <<text, parsed, ppc, markup, extracted, config, last_ai_info, fvars>>

NextServe == Receive \/ Handle \/ SentThenCleaned

SpecServe == InitServe /\ [][NextServe]_vars

(***************************************************************************)
(* Properties.  What a property needs besides the state is defined first.  *)
(***************************************************************************)
\* the records of a sequence of row contributions, one after the other
RECURSIVE Flatten(_)
Flatten(cs) == IF cs = <<>> THEN <<>> ELSE Head(cs).recs \o Flatten(Tail(cs))

\* the spans <<i, j>> of toks that are, alone, a valid JSON array / object
JsonSpans(toks, kind) ==
    {ij \in (1..Len(toks)) \X (1..Len(toks)) :
        /\ ij[1] <= ij[2]
        /\ LET v == json_loads(SubSeq(toks, ij[1], ij[2])) IN ~v.exc /\ v.val.t = kind}

Inside(kl, ij) == ij[1] <= kl[1] /\ kl[2] <= ij[2]

\* the span ij holds all the JSON of toks: every array or object lies within it
HoldsAllJson(toks, ij) ==
    \A kl \in JsonSpans(toks, "arr") \cup JsonSpans(toks, "obj") : Inside(kl, ij)

\* nothing but words of prose outside the span ij
OnlyProseAround(toks, ij) ==
    \A k \in 1..Len(toks) : (k < ij[1] \/ k > ij[2]) => toks[k] = PROSE

ValueAt(toks, ij) == json_loads(SubSeq(toks, ij[1], ij[2])).val

\* a column label that is, trimmed and lower-cased, a subject or url synonym
IsSynonym(label) ==
    /\ label.kind = "str"
    /\ \/ InColumns(lower(strip(label.chars)), subject_candidates)
       \/ InColumns(lower(strip(label.chars)), url_candidates)

NoSynonym(columns) == \A i \in 1..Len(columns) : ~IsSynonym(columns[i])

\* the model's answer is no usable JSON: no part of it is a JSON array or object
Unparsable(txt) ==
    \/ txt.none
    \/ \A i, j \in 1..Len(txt.toks) :
          LET v == json_loads(SubSeq(txt.toks, i, j)) IN
          v.exc \/ v.val.t \notin {"arr", "obj"}

\* the underlying call failed: SDK or network exception, HTTP error status,
\* malformed body, empty or malformed model output
UnparsableContents == {c \in Contents : Unparsable(c)}
FailedCall(provider, env) ==
    \/ env.raises
    \/ provider = "openrouter" /\ (env.status >= HTTP_ERROR_MIN \/ env.bad_body)
    \/ env.content \in UnparsableContents

\* the contributions of a path for a row
CallsOf(path, row) == {k \in 1..Len(calls) : calls[k].path = path /\ calls[k].row = row}

\* C1: every record scraper_url returns, by AI extraction or by the heuristic,
\* carries the url it was called with, whatever url the model wrote
C1_RecordUrlIsInputUrl ==
    last.op = "scrape" =>
        \A k \in 1..Len(last.recs) :
            /\ IsDict(last.recs[k])
            /\ "url" \in DOMAIN last.recs[k].f
            /\ last.recs[k].f["url"] = JStr(last.arg)

\* C1 witness: the AI extraction gave the record, from a model output whose
\* url was another one than the url scraped
C1_Witness_ModelUrlOverwritten ==
    /\ last.op = "scrape"
    /\ last.ia # JNull
    /\ last.recs = <<last.ia>>
    /\ last.env.content = Str(R_object)
    /\ json_loads(R_object).val.f["url"] # JStr(last.arg)

\* C2 (as stated): when the text holds a valid JSON array, and no JSON lies
\* outside it, _parse_response returns the elements of that array, whatever
\* the text before and after it
C2_EmbeddedArrayReturned ==
    (ppc = "done" /\ ~text.none) =>
        \A ij \in JsonSpans(text.toks, "arr") :
            HoldsAllJson(text.toks, ij) => parsed.ret = ValueAt(text.toks, ij).items

\* C2 failing state: the text is "[" then the array ["X"]; the match runs from
\* the first "[" to the last "]", is no JSON, and the result is the empty list
C2_Failing_BracketBeforeArray ==
    /\ ppc = "done"
    /\ text = Str(<<LB, LB, "X", RB>>)
    /\ <<2, 4>> \in JsonSpans(text.toks, "arr")
    /\ HoldsAllJson(text.toks, <<2, 4>>)
    /\ parsed = Returned(<<>>)

\* C3 (as stated): when the text is prose around one valid JSON object,
\* _parse_response returns the one-element list of that object, whatever the
\* values of its fields
C3_SingleObjectWrapped ==
    (ppc = "done" /\ ~text.none) =>
        \A ij \in JsonSpans(text.toks, "obj") :
            OnlyProseAround(text.toks, ij) => parsed.ret = <<ValueAt(text.toks, ij)>>

\* C3 failing state: the text is the object {"titre": []}; the array pattern
\* matches the list inside it, and the elements of that list are returned
C3_Failing_InnerListReturned ==
    /\ ppc = "done"
    /\ text = Str(<<LC, "titre:", LB, RB, RC>>)
    /\ ~json_loads(text.toks).exc
    /\ parsed = Returned(<<>>)
    /\ parsed.ret # <<json_loads(text.toks).val>>

\* C4: _parse_response never raises, and returns the empty list for None, for
\* the empty text, for a text without bracket and for a text no part of which
\* is valid JSON
C4_ParseNeverRaises ==
    ppc = "done" =>
        /\ ~parsed.exc
        /\ Unparsable(text) => parsed.ret = <<>>

\* C4 witness: a text with a bracketed part that is malformed JSON got []
C4_Witness_MalformedBracketed ==
    /\ ppc = "done"
    /\ ~text.none
    /\ re_search(LB, RB, text.toks).found
    /\ json_loads(re_search(LB, RB, text.toks).group).exc
    /\ Unparsable(text)
    /\ parsed = Returned(<<>>)

\* C5: the result list is the records of the subject path, row after row, each
\* row's records in the order returned, then the records of the url path, row
\* after row; no record of the url path comes before one of the subject path
C5_SubjectRecordsThenUrlRecords ==
    /\ results = Flatten(calls)
    /\ \A i, j \in 1..Len(calls) :
          i < j =>
              /\ ~(calls[i].path = "url" /\ calls[j].path = "subject")
              /\ calls[i].path = calls[j].path => calls[i].row < calls[j].row

\* C5 witness: both roles resolved, two rows went through both paths, and
\* both paths gave records
C5_Witness_BothPathsTwoRows ==
    /\ pc = "done"
    /\ subject_col # NoCol
    /\ url_col # NoCol
    /\ Len(calls) = 4
    /\ Len(calls[1].recs) = 2
    /\ Len(calls[2].recs) = 2
    /\ calls[3].recs # <<>>
    /\ calls[4].recs # <<>>
    /\ Len(results) = 6

\* C6 (as stated): when the read fails, no row is processed and the result
\* list is empty at the return, whatever was done on the finder before
C6_ReadFailureLeavesNoRecords ==
    pc = "aborted" =>
        /\ results = <<>>
        /\ calls = <<>>
        /\ sleeps = 0

\* C6 failing state: the second run of the finder failed to read its table, and
\* the records of the first run are still in the result list
C6_Failing_StaleRecords ==
    /\ pc = "aborted"
    /\ runs = 2
    /\ results # <<>>

\* C7 (as stated): once the table is read, traiter_fichier never raises and
\* never stops early: at its end every non-blank cell of a resolved column
\* has gone through its path
C7_NeverRaisesNorStopsEarly ==
    /\ pc # "raised"
    /\ pc = "done" =>
          \A i \in 1..Len(df.rows) :
              /\ (subject_col # NoCol /\ NonBlank(CellAt(i, subject_col)))
                    => CallsOf("subject", i) # {}
              /\ (url_col # NoCol /\ NonBlank(CellAt(i, url_col)))
                    => CallsOf("url", i) # {}

\* C7 failing state: "URL" and "url" both give the column url; the url loop
\* raised at its first row, and traiter_fichier ended there
C7_Failing_TwoColumnsOneName ==
    /\ pc = "raised"
    /\ url_col # NoCol
    /\ Ambiguous(url_col)
    /\ Len(df.rows) >= 1

\* C8 (as stated): on a table that is read and has no column named by a
\* synonym, traiter_fichier completes without raising, calls no provider,
\* scrapes nothing, warns, and leaves the result list empty
C8_NoRecognisedColumnCompletes ==
    (runs > 0 /\ pc # "aborted" /\ NoSynonym(df.columns)) =>
        /\ pc = "done"
        /\ warned
        /\ results = <<>>
        /\ calls = <<>>
        /\ sleeps = 0

\* C8 failing state: a header cell is a number, no column is named by a
\* synonym, and the normalisation of the names raised
C8_Failing_NumericHeader ==
    /\ pc = "raised"
    /\ df.columns # <<>>
    /\ NoSynonym(df.columns)
    /\ NormalizeRaises(df.columns)
    /\ ~warned

\* C9: with both roles resolved, a row with both cells non-blank gives one
\* search, whose records are all appended, and one scrape, whose record is
\* appended apart: nothing is merged, nothing is dropped as a duplicate
C9_BothPathsIndependent ==
    (pc = "done" /\ subject_col # NoCol /\ url_col # NoCol) =>
        /\ \A i \in 1..Len(df.rows) :
              (NonBlank(CellAt(i, subject_col)) /\ NonBlank(CellAt(i, url_col))) =>
                  /\ Cardinality(CallsOf("subject", i)) = 1
                  /\ Cardinality(CallsOf("url", i)) = 1
        /\ Len(results) = Len(Flatten(calls))
        /\ \A k \in 1..Len(calls) :
              \A r \in 1..Len(calls[k].recs) :
                  results[Len(Flatten(SubSeq(calls, 1, k - 1))) + r] = calls[k].recs[r]

\* C9 witness: the one row of the table has both cells filled, and the record
\* of its scrape is in the results beside an equal record of its search
C9_Witness_EqualRecordsKept ==
    /\ pc = "done"
    /\ Len(df.rows) = 1
    /\ Len(calls) = 2
    /\ calls[1].path = "subject"
    /\ calls[2].path = "url"
    /\ calls[2].recs # <<>>
    /\ \E r \in 1..Len(calls[1].recs) : calls[1].recs[r] = calls[2].recs[1]
    /\ Len(results) = Len(calls[1].recs) + 1

\* C10: for every provider value and every failure of the call, the search
\* returns the empty list and the AI extraction returns no record; neither
\* raises
C10_FailuresGiveEmpty ==
    /\ ~last.exc
    /\ (last.op = "search" /\ FailedCall(api_provider, last.env)) => last.recs = <<>>
    /\ (last.op = "search" /\ api_provider \notin {"openai", "anthropic", "openrouter"})
          => last.recs = <<>>
    /\ (last.op = "scrape" /\ last.ia_called /\ FailedCall(api_provider, last.env))
          => last.ia = JNull
    /\ (last.op = "scrape" /\ last.fetched /\ ~last.ia_called) => last.ia = JNull

\* C10 witness: the aggregator answered a search with an HTTP error status
\* and a later AI extraction got a malformed output: both logged, both empty
C10_Witness_FailedCalls ==
    /\ api_provider = "openrouter"
    /\ last.op = "scrape"
    /\ last.ia_called
    /\ last.env.content \in UnparsableContents
    /\ last.ia = JNull
    /\ Len(ai_errors) >= 1
    /\ ai_calls >= 2

\* the same letter, whatever its case
SameLetter(a, b) ==
    \/ a = b
    \/ a \in DOMAIN UpperToLower /\ UpperToLower[a] = b
    \/ b \in DOMAIN UpperToLower /\ UpperToLower[b] = a

\* the key, its leading white space passed, begins with prefix, case ignored
BeginsWith(key, prefix) ==
    /\ ~key.none
    /\ \E i \in 1..Len(key.chars) :
          /\ \A j \in 1..(i - 1) : key.chars[j] \in Whitespace
          /\ i + Len(prefix) - 1 <= Len(key.chars)
          /\ \A j \in 1..Len(prefix) : SameLetter(key.chars[i + j - 1], prefix[j])

\* C11: a key that begins with sk-or-, white space trimmed and case ignored,
\* makes the finder's provider openrouter whatever provider was configured;
\* with any other key the provider is the configured one
C11_ProviderFromKeyPrefix ==
    IF BeginsWith(built.key, OPENROUTER_PREFIX)
    THEN api_provider = "openrouter"
    ELSE api_provider = built.provider

\* C11 witness: the key " SK-OR-..." with anthropic configured gave openrouter
C11_Witness_UpperCaseKeyForcesOpenrouter ==
    /\ ~built.key.none
    /\ Len(built.key.chars) >= 7
    /\ built.key.chars[1] = " "
    /\ built.key.chars[2] = "S"
    /\ BeginsWith(built.key, OPENROUTER_PREFIX)
    /\ built.provider = "anthropic"
    /\ api_provider = "openrouter"
    /\ pc = "aborted"

\* a step of a run in which a provider was called, for a search or an extraction
ProviderCalledInStep ==
    /\ Len(calls') = Len(calls) + 1
    /\ \/ last'.op = "search" /\ api_provider \in {"openai", "anthropic", "openrouter"}
       \/ last'.op = "scrape" /\ last'.ia_called

\* C12 (as stated): every failed provider call of a run makes ai_errors at
\* least one entry longer, whichever the provider; and the aggregator's call
\* returns the empty string for a status of 400 or more
C12_FailedCallIsCounted ==
    /\ [][(ProviderCalledInStep /\ FailedCall(api_provider, last'.env))
            => Len(ai_errors') >= Len(ai_errors) + 1]_vars
    /\ [](\A env \in OpenrouterEnvs :
            env.status >= HTTP_ERROR_MIN =>
                call_openrouter_chat(CurDiag, env).ret = Str(<<>>))

\* C12 failing state: the OpenAI SDK call of the first search of a run raised,
\* the search returned [], and ai_errors is still empty
C12_Failing_OpenaiFailureNotCounted ==
    /\ api_provider = "openai"
    /\ Len(calls) = 1
    /\ last.op = "search"
    /\ last.env.raises
    /\ last.recs = <<>>
    /\ ai_errors = <<>>

\* a step in which scraper_url ran and its fetch gave an HTTP response
ScrapedInStep ==
    /\ ops' # ops
    /\ last'.op = "scrape"
    /\ ~last'.fetch.raises

\* the same fetch with the status 200
WithOkStatus(fetch) == [fetch EXCEPT !.status = 200]

\* C13: when the fetch returns a response, scraper_url does what it does for
\* the status 200 and the same body: same record, same counters, same errors;
\* a status of 400 or more alone never gives 'no record'
C13_ErrorStatusLikeOk ==
    [][ScrapedInStep =>
          /\ scraper_url(CurDiag, api_provider, last'.arg, WithOkStatus(last'.fetch), last'.env).st
                = [ai_calls |-> ai_calls', ai_success |-> ai_success',
                   heuristic_used |-> heuristic_used', ai_errors |-> ai_errors']
          /\ LET ok == scraper_url(CurDiag, api_provider, last'.arg,
                                   WithOkStatus(last'.fetch), last'.env).ret
             IN  last'.recs = IF DictTruthy(ok) THEN <<ok>> ELSE <<>>
          /\ last'.recs # <<>>]_vars

\* C13 witness: a page served with the status 404 went through the AI
\* extraction, which failed, and the heuristic gave its record
C13_Witness_Status404Scraped ==
    /\ last.op = "scrape"
    /\ ~last.fetch.raises
    /\ last.fetch.status = 404
    /\ last.ia_called
    /\ last.ia = JNull
    /\ last.recs # <<>>
    /\ last.recs[1].f["titre"] = JStr("Spring Grant 2026")
    /\ heuristic_used >= 1

\* C14: a scraper_url call whose fetch and markup parse succeed adds 1 to
\* exactly one of ai_success and heuristic_used: to ai_success when the record
\* returned is the AI extraction's, to heuristic_used when the AI extraction
\* gave nothing and the heuristic extractor was invoked
C14_OneCounterPerScrape ==
    [][ScrapedInStep =>
          \/ /\ last'.ia # JNull
             /\ last'.recs = <<last'.ia>>
             /\ ai_success' = ai_success + 1
             /\ heuristic_used' = heuristic_used
          \/ /\ last'.ia = JNull
             /\ last'.recs = <<extraire_info_heuristique(last'.fetch.page, last'.arg)>>
             /\ ai_success' = ai_success
             /\ heuristic_used' = heuristic_used + 1]_vars

\* C14 witness: two scrapes were made, one answered by the AI extraction and
\* one by the heuristic after a model output that is a list of numbers
C14_Witness_OneOfEach ==
    /\ ops = 2
    /\ ai_calls = 2
    /\ ai_success = 1
    /\ heuristic_used = 1
    /\ last.op = "scrape"
    /\ last.env.content = Str(R_scalars)
    /\ last.ia = JNull
    /\ last.recs # <<>>

\* a step of a run in which scraper_url ran and its fetch or markup parse raised
FetchRaisedInStep ==
    /\ Len(calls') = Len(calls) + 1
    /\ last'.op = "scrape"
    /\ last'.fetch.raises

\* C15: when the fetch or the markup parse raises, scraper_url returns no
\* record, the heuristic extractor is not invoked, and ai_calls, ai_success,
\* heuristic_used and the result list are as before the call
C15_FetchFailureChangesNothing ==
    [][FetchRaisedInStep =>
          /\ last'.recs = <<>>
          /\ ~last'.exc
          /\ ~last'.ia_called
          /\ ai_calls' = ai_calls
          /\ ai_success' = ai_success
          /\ heuristic_used' = heuristic_used
          /\ results' = results]_vars

\* C15 witness: the run had records, the fetch of its last url raised, and
\* the run ended with the same records
C15_Witness_FetchRaisedAfterRecords ==
    /\ pc = "done"
    /\ last.op = "scrape"
    /\ last.fetch.raises
    /\ last.recs = <<>>
    /\ results # <<>>
    /\ Len(calls) >= 2


(***************************************************************************)
(* Properties of the heuristic extractor                                   *)
(***************************************************************************)
HeuristicFields == {"titre", "organisation", "date_debut", "date_cloture", "url", "description"}

\* the page has no Open Graph / Twitter title, no <title> and no heading
NoTitleSource(soup) ==
    /\ soup.og_title = ""
    /\ soup.tw_title = ""
    /\ soup.title = ""
    /\ soup.headings = <<>>

\* the page has no description meta of any kind
NoDescriptionSource(soup) ==
    /\ soup.og_description = ""
    /\ soup.tw_description = ""
    /\ soup.description = ""

NoDateInText(soup) == \A i \in 1..Len(soup.full_text) : soup.full_text[i].k # "date"

FirstOfTag(soup, tag) ==
    LET at == {i \in 1..Len(soup.headings) : soup.headings[i].tag = tag} IN
    IF at = {} THEN "" ELSE stripped(soup.headings[MinOf(at)].text)

\* the title sources in their order, each "" when absent or empty
TitleSources(soup) ==
    << stripped(soup.og_title), stripped(soup.tw_title), stripped(soup.title),
       FirstOfTag(soup, "h1"), FirstOfTag(soup, "h2") >>

FirstNonEmpty(srcs, sentinel) ==
    LET full == {k \in 1..Len(srcs) : srcs[k] # ""} IN
    IF full = {} THEN sentinel ELSE srcs[MinOf(full)]

\* C17 (as amended): the heuristic title is the first non-empty of Open Graph
\* title meta, Twitter title meta, page <title>, first h1 element, first h2
\* element; a later source is used only when every earlier one is absent or
\* empty; other headings are not read and without any source titre is
\* 'Sans titre'.
C17_TitleIsFirstNonEmptySource ==
    \A i \in 1..Len(extracted) :
        extracted[i].ret.f["titre"] =
            JStr(FirstNonEmpty(TitleSources(markup.soup), "Sans titre"))

\* C17 (as stated): a page whose only title source is a heading element gets
\* that heading's text
C17_Failing_OnlyHeadingGivesItsText ==
    \A i \in 1..Len(extracted) :
        LET soup == markup.soup IN
        (/\ soup.og_title = ""
         /\ soup.tw_title = ""
         /\ soup.title = ""
         /\ Len(soup.headings) = 1
         /\ stripped(soup.headings[1].text) # "")
        => extracted[i].ret.f["titre"] = JStr(soup.headings[1].text)

\* the title came from the h2 element: the Open Graph title and the first h1
\* are there but empty, the other sources are absent
C17_Witness_SecondHeadingAfterEmptySources ==
    /\ extracted # <<>>
    /\ markup.soup.og_title = Blank
    /\ markup.soup.tw_title = ""
    /\ markup.soup.title = ""
    /\ markup.soup.headings = << Heading("h1", Blank), Heading("h2", "Appel B") >>
    /\ extracted[1].ret.f["titre"] = JStr("Appel B")

\* the date tokens of one of the forms that begin at most DATE_WINDOW
\* characters after the end of an occurrence of a keyword of the role
DatesNearKeyword(items, role, forms) ==
    {j \in 1..Len(items) :
        /\ items[j].k = "date"
        /\ items[j].form \in forms
        /\ \E i \in 1..(j - 1) :
            /\ items[i].k = "kw"
            /\ items[i].role = role
            /\ Width(items, i + 1, j - 1) <= DATE_WINDOW}

\* the field is one of the tokens when there is one, the sentinel otherwise
DateFieldIs(field, items, near) ==
    IF near = {} THEN field = JStr("Non spécifiée")
    ELSE \E j \in near : field = JStr(items[j].s)

DateRoles == [date_cloture |-> "cloture", date_debut |-> "debut"]

\* C18 (as amended): date_cloture (resp. date_debut) is a date token, numeric
\* D[./-]M[./-]Y with a year of 2 to 4 digits or day + French month name +
\* 4-digit year, exactly when the visible text has such a token beginning
\* within 40 characters after a closing (resp. start) keyword; the field is
\* then that token alone, and 'Non spécifiée' otherwise.
C18_DateNearKeywordOrSentinel ==
    \A i \in 1..Len(extracted) : \A k \in DOMAIN DateRoles :
        DateFieldIs(extracted[i].ret.f[k], markup.soup.full_text,
                    DatesNearKeyword(markup.soup.full_text, DateRoles[k],
                                     {"num4", "num2", "txt"}))

\* C18 (as stated): the numeric token is D[./-]M[./-]YYYY
C18_Failing_FourDigitYearOnly ==
    \A i \in 1..Len(extracted) : \A k \in DOMAIN DateRoles :
        DateFieldIs(extracted[i].ret.f[k], markup.soup.full_text,
                    DatesNearKeyword(markup.soup.full_text, DateRoles[k],
                                     {"num4", "txt"}))

\* 'Deadline: 15 mars 2026': the closing date is the token, the start date
\* the sentinel
C18_Witness_DeadlineThenFrenchDate ==
    /\ extracted # <<>>
    /\ markup.soup.full_text =
           << Kw("cloture", 8), Other(2), DateTok("15 mars 2026", "txt", 12) >>
    /\ extracted[1].ret.f["date_cloture"] = JStr("15 mars 2026")
    /\ extracted[1].ret.f["date_debut"] = JStr("Non spécifiée")

\* C19: the heuristic extractor has no hidden state: whatever the finder did
\* before and between its calls, every call on the same markup and url returns
\* the same record without raising, and a call leaves self.results,
\* ai_calls, ai_success, heuristic_used and ai_errors as they were.
C19_HeuristicHasNoHiddenState ==
    /\ [](\A i, j \in 1..Len(extracted) :
            /\ ~extracted[i].exc
            /\ extracted[i].ret = extracted[j].ret)
    /\ [][extracted' # extracted
            => /\ results' = results
               /\ ai_calls' = ai_calls
               /\ ai_success' = ai_success
               /\ heuristic_used' = heuristic_used
               /\ ai_errors' = ai_errors]_vars

\* the extractor was called twice with a run in between that made AI calls
\* and used the heuristic itself; the finder holds records
C19_Witness_TwiceAroundARun ==
    /\ Len(extracted) = 2
    /\ extracted[1].before = Diag(0, 0, 0, <<>>)
    /\ extracted[2].before.ai_calls > 0
    /\ extracted[2].before.heuristic_used > 0
    /\ extracted[1].ret = extracted[2].ret
    /\ results # <<>>
    /\ CurDiag = extracted[2].before

\* C20: in every step of a finder's life ai_calls, ai_success and
\* heuristic_used do not decrease and ai_errors keeps its entries in place,
\* new ones coming at its end: no run, search or scrape resets a counter or
\* removes or reorders an error entry.
C20_DiagnosticsOnlyGrow ==
    [][/\ ai_calls' >= ai_calls
       /\ ai_success' >= ai_success
       /\ heuristic_used' >= heuristic_used
       /\ Len(ai_errors') >= Len(ai_errors)
       /\ SubSeq(ai_errors', 1, Len(ai_errors)) = ai_errors]_vars

\* the second run of a finder is over: the diagnostics hold what both runs
\* added, an AI success of one and a heuristic fallback and errors of the
\* other, while self.results holds the records of the second run only
C20_Witness_TwoRunsAddUp ==
    /\ runs = 2
    /\ pc = "done"
    /\ ai_calls = 2
    /\ ai_success = 1
    /\ heuristic_used = 1
    /\ Len(ai_errors) >= 2
    /\ Len(results) = 1


\* C27: in every state of a finder ai_success <= ai_calls; with the provider
\* openai or openrouter, after any sequence of completed searches and scrapes
\* ai_calls = ai_success + heuristic_used; and a search changes none of the
\* three counters.
C27_CountersBalance ==
    /\ [](/\ ai_success <= ai_calls
          /\ api_provider \in {"openai", "openrouter"}
                => ai_calls = ai_success + heuristic_used)
    /\ [][last'.op = "search" /\ ops' = ops + 1
            => /\ ai_calls' = ai_calls
               /\ ai_success' = ai_success
               /\ heuristic_used' = heuristic_used]_vars

\* an OpenRouter finder after two scrapes: the model's answer gave the record
\* of one, the other fell back on the heuristic
C27_Witness_OneSuccessOneFallback ==
    /\ api_provider = "openrouter"
    /\ ops = 2
    /\ last.op = "scrape"
    /\ ai_calls = 2
    /\ ai_success = 1
    /\ heuristic_used = 1

\* C25 (as stated): with the provider openai, anthropic or openrouter, every
\* scrape whose fetch succeeds makes one AI extraction attempt, counted in
\* ai_calls, and the heuristic is used only after that attempt gave nothing
C25_AiExtractionBeforeHeuristic ==
    [][ScrapedInStep /\ api_provider \in {"openai", "anthropic", "openrouter"}
          => /\ ai_calls' = ai_calls + 1
             /\ last'.ia_called
             /\ heuristic_used' # heuristic_used => last'.ia = JNull]_vars

\* an Anthropic finder scraped a page: no AI call was made and the record is
\* the heuristic's
C25_Failing_AnthropicNeverExtracts ==
    /\ api_provider = "anthropic"
    /\ last.op = "scrape"
    /\ ~last.fetch.raises
    /\ ai_calls = 0
    /\ heuristic_used >= 1
    /\ last.recs # <<>>

\* C26 (as stated): every element of self.results is a dict, whatever the
\* model answered
C26_ResultsAreRecords ==
    \A i \in 1..Len(results) : IsDict(results[i])

\* a run is over whose search was answered '[1]': self.results holds a number
C26_Failing_NumberAmongResults ==
    /\ pc = "done"
    /\ results # <<>>
    /\ results[1].t = "num"

\* the rows of the table read whose cell in the column col is not blank
NonBlankRows(col) ==
    IF col = NoCol THEN {}
    ELSE {i \in 1..Len(df.rows) : NonBlank(CellAt(i, col))}

\* the rows for which the run made a call on that path, and how many calls
CallsOn(path, i) == {k \in 1..Len(calls) : calls[k].path = path /\ calls[k].row = i}

SelectedColumns(candidates) ==
    ColumnPositions(FirstCandidate(candidates, Normalized(df.columns)),
                    Normalized(df.columns))

\* C23 (as stated): when the names of the table, trimmed and lower-cased,
\* include synonyms of a role, whatever their number and the case or white
\* space of the original names, the first synonym of the priority list is
\* selected, the run completes normally, and each search takes its subject
\* from a cell of that column
C23_FirstSynonymIsReadToTheEnd ==
    (df # NoDf /\ ~NormalizeRaises(df.columns)) =>
        /\ subject_col = FirstCandidate(subject_candidates, Normalized(df.columns))
        /\ url_col = FirstCandidate(url_candidates, Normalized(df.columns))
        /\ pc # "raised"
        /\ last.op = "search" =>
              \E c \in SelectedColumns(subject_candidates) : last.arg = df.rows[last.row][c].s

\* C23 failing state: the table has the columns "Sujet" and "sujet ", one row;
\* the subject loop raised at that row and no search was made
C23_Failing_SameNameTwice ==
    /\ pc = "raised"
    /\ ~NormalizeRaises(df.columns)
    /\ Cardinality(SelectedColumns(subject_candidates)) = 2
    /\ url_col = NoCol
    /\ Len(df.rows) >= 1
    /\ calls = <<>>

(***************************************************************************)
(* Properties of /process                                                  *)
(***************************************************************************)
\* the values a variable has, stripped, in the process environment and in the
\* config file, blank ones left out
ValuesOf(var) ==
    IF var = "" THEN {}
    ELSE {strip(config.environ[var]), strip(config.dotenv[var])} \ {<<>>}

\* C21 (as stated): the key handed to the finder is the request's key when it
\* is not blank; otherwise the value of the selected provider's variable when
\* it is set, in the process environment or the config file; otherwise the
\* value of AP_FINDER_API_KEY, from whichever of the two defines it
C21_KeyByPriority ==
    \A r \in 1..Len(reqs) :
        reqs[r].pc = "resolved" =>
            LET own == strip(reqs[r].api_key)
                specific == ValuesOf(provider_var(reqs[r].api_provider))
                generic == ValuesOf("AP_FINDER_API_KEY")
            IN  IF own # <<>> THEN reqs[r].key = own
                ELSE IF specific # {} THEN reqs[r].key \in specific
                ELSE IF generic # {} THEN reqs[r].key \in generic
                ELSE TRUE

\* C21 failing state: AP_FINDER_API_KEY is set in the process environment
\* only, nothing else is set and the request has no key: the finder gets the
\* empty key
C21_Failing_GenericInEnvironIgnored ==
    /\ reqs[1].pc = "resolved"
    /\ strip(reqs[1].api_key) = <<>>
    /\ config.environ["AP_FINDER_API_KEY"] # <<>>
    /\ \A v \in KeyVars \ {"AP_FINDER_API_KEY"} : config.environ[v] = <<>>
    /\ \A v \in KeyVars : config.dotenv[v] = <<>>
    /\ reqs[1].key = <<>>
    /\ reqs[1].key_source = NoSource

\* C28: every temporary directory created by a /process request is removed on
\* every exit path of the request.  Nothing acts on a request once it is
\* closed (its response sent and its background task run), so "eventually
\* removed" is: the directory of a closed request no longer exists.
C28_TmpdirRemovedOnEveryExit ==
    \A r \in 1..Len(reqs) : reqs[r].pc = "closed" => r \notin tmpdirs

\* a request closed by the handler's outer `except Exception`, which returns
\* the 500 response without shutil.rmtree: its directory is still there
C28_Failing_BoundaryExceptLeavesTmpdir ==
    /\ Len(reqs) = MaxReqs
    /\ \A r \in 1..Len(reqs) : reqs[r].pc = "closed"
    /\ reqs[1].response = [status |-> 500, error |-> "exception"]
    /\ 1 \in tmpdirs
    /\ reqs[2].response.status = 200
    /\ 2 \notin tmpdirs

\* C22: whatever the interleaving of /process requests, each has a finder of
\* its own, started from empty results and zero counters and holding the
\* outcome of its one row only, and every diagnostic header of its response
\* (provider, calls, successes, heuristic uses, errors, key source) is the
\* value of its own run.
C22_OwnFinderOwnDiagnostics ==
    \A r \in 1..Len(reqs) :
        reqs[r].response.status = 200 =>
            LET f == reqs[r].finder
                h == reqs[r].response.headers
            IN  /\ f.diag.ai_calls <= 1
                /\ f.diag.ai_success + f.diag.heuristic_used <= 1
                /\ Len(f.results) <= 1
                /\ f.api_provider = init_provider(StrKey(reqs[r].key), reqs[r].provider)
                /\ h.provider = f.api_provider
                /\ h.ai_calls = f.diag.ai_calls
                /\ h.ai_success = f.diag.ai_success
                /\ h.heuristic_used = f.diag.heuristic_used
                /\ h.ai_errors = f.diag.ai_errors
                /\ h.key_source = reqs[r].key_source

\* two requests were in flight together, the one received first answered last;
\* their providers, counters and key sources differ and each response has its own
C22_Witness_TwoRequestsOwnHeaders ==
    /\ Len(reqs) = 2
    /\ reqs[1].pc = "sending"
    /\ reqs[2].pc = "closed"
    /\ reqs[1].response.status = 200
    /\ reqs[2].response.status = 200
    /\ reqs[1].response.headers.key_source = Source("ui", "")
    /\ reqs[1].response.headers.provider = "openrouter"
    /\ reqs[1].response.headers.heuristic_used = 1
    /\ reqs[1].response.headers.ai_errors # <<>>
    /\ reqs[2].response.headers.key_source = Source("env", "OPENAI_API_KEY")
    /\ reqs[2].response.headers.provider = "openai"
    /\ reqs[2].response.headers.ai_success = 1
    /\ reqs[2].response.headers.ai_errors = <<>>
    /\ last_ai_info.key_source = Source("ui", "")
====
